---- MODULE Spec2Model ----
(***************************************************************************)
(* EvalAI grading engine: the similarity scorer (app/scorer.py), the       *)
(* concept matcher, rubric scorer and feedback generator                   *)
(* (app/enhanced_scorer.py), grade assignment (app/crud/paper_crud.py) and *)
(* the paper grader (app/services/paper_service.py).                       *)
(*                                                                         *)
(* Numbers.  A Python float is modelled by the exact rational it stands    *)
(* for, a record [n |-> numerator, d |-> denominator > 0] in lowest terms. *)
(* Texts.  A Python str is a sequence of one-character strings; " " is     *)
(* the whitespace character.                                               *)
(***************************************************************************)
EXTENDS Integers, Sequences, FiniteSets, TLC

VARIABLES
    job,              \* the arguments of the call under way or last made
    out,              \* what that call returned or raised; out.ready says it has
    questions,        \* table questions: the row with id i is questions[i]
    papers,           \* table papers
    paper_questions,  \* table paper_questions
    students,         \* table students
    submissions,      \* table paper_submissions
    responses,        \* table question_responses
    _model            \* app.model._model: <<>> before the first load, then <<m>>

store == <<questions, papers, paper_questions, students, submissions, responses, _model>>

vars == <<job, out, questions, papers, paper_questions, students, submissions,
          responses, _model>>

NotReady == [ready |-> FALSE]

(* The store of a fresh process: empty tables, no model loaded. *)
EmptyStore ==
    /\ questions = <<>> /\ papers = <<>> /\ paper_questions = <<>>
    /\ students = <<>> /\ submissions = <<>> /\ responses = <<>>
    /\ _model = <<>>

----------------------------------------------------------------------------
(* Exact rational arithmetic standing for Python's float arithmetic.       *)

Abs(x) == IF x < 0 THEN -x ELSE x

RECURSIVE Gcd(_, _)
Gcd(a, b) == IF b = 0 THEN a ELSE Gcd(b, a % b)

Rat(n, d) == LET g == Gcd(Abs(n), d) IN [n |-> n \div g, d |-> d \div g]

RatInt(k) == [n |-> k, d |-> 1]

RatAdd(a, b) ==
    LET l == (a.d \div Gcd(a.d, b.d)) * b.d
    IN  Rat(a.n * (l \div a.d) + b.n * (l \div b.d), l)

RatNeg(a) == [n |-> -a.n, d |-> a.d]

RatSub(a, b) == RatAdd(a, RatNeg(b))

RatMul(a, b) ==
    LET g1 == Gcd(Abs(a.n), b.d)
        g2 == Gcd(Abs(b.n), a.d)
    IN  Rat((a.n \div g1) * (b.n \div g2), (a.d \div g2) * (b.d \div g1))

RatLeq(a, b) == a.n * b.d <= b.n * a.d

RatLt(a, b) == a.n * b.d < b.n * a.d

RatGeq(a, b) == RatLeq(b, a)

RatMin(a, b) == IF RatLeq(a, b) THEN a ELSE b

RatMax(a, b) == IF RatLeq(a, b) THEN b ELSE a

RatAbs(a) == [n |-> Abs(a.n), d |-> a.d]

Zero == RatInt(0)

One == RatInt(1)

InUnit(a) == RatLeq(Zero, a) /\ RatLeq(a, One)

(* Python int(x): truncation towards zero. *)
IntTrunc(a) == IF a.n >= 0 THEN a.n \div a.d ELSE -((-a.n) \div a.d)

(* Python round(x): to the nearest integer, a tie to the even one. *)
RoundHalfEven(a) ==
    LET q == a.n \div a.d
        r2 == 2 * (a.n - q * a.d)
    IN  IF r2 < a.d THEN q
        ELSE IF r2 > a.d THEN q + 1
        ELSE IF q % 2 = 0 THEN q ELSE q + 1

(* Python round(x, k): round(x * 10^k) / 10^k, scale = 10^k. *)
RoundTo(a, scale) == Rat(RoundHalfEven(RatMul(a, RatInt(scale))), scale)

----------------------------------------------------------------------------
(* Texts: str.strip(), str.split(sep), str.split().                        *)

IsSpace(c) == c = " "

RECURSIVE LStrip(_)
LStrip(s) == IF s = <<>> THEN s
             ELSE IF IsSpace(Head(s)) THEN LStrip(Tail(s)) ELSE s

RECURSIVE RStrip(_)
RStrip(s) == IF s = <<>> THEN s
             ELSE IF IsSpace(s[Len(s)]) THEN RStrip(SubSeq(s, 1, Len(s) - 1))
             ELSE s

Strip(s) == RStrip(LStrip(s))

(* s.split(sep) for a one-character separator: the segments between the    *)
(* separators, the empty ones included.                                     *)
Split(s, sep) ==
    LET seps == {i \in 1..Len(s) : s[i] = sep}
        Pos(k) == IF k = 0 THEN 0
                  ELSE IF k > Cardinality(seps) THEN Len(s) + 1
                  ELSE CHOOSE p \in seps : Cardinality({q \in seps : q <= p}) = k
    IN  [k \in 1..(Cardinality(seps) + 1) |-> SubSeq(s, Pos(k - 1) + 1, Pos(k) - 1)]

NonEmpty(s) == s # <<>>

(* s.split(): the maximal runs of non-whitespace characters. *)
Words(s) == SelectSeq(Split(s, " "), NonEmpty)

WordCount(s) == Len(Words(s))

----------------------------------------------------------------------------
(* The Semantic Encoder (app/model.py).  SentenceTransformer.encode is an  *)
(* external, deterministic function from texts to unit vectors            *)
(* (normalize_embeddings=True).  A vector is <<x, y, r>>: (x, y)/25 is the *)
(* unit vector and r is the float rounding residue of its normalisation,  *)
(* in units of 1/10000.  The loaded model is one of a bounded family of    *)
(* deterministic encoders, named by a number m.                            *)

EmbVecs == << <<25, 0, 0>>, <<20, 15, 1>>, <<7, 24, -1>>, <<-15, 20, 0>>, <<15, 20, 0>> >>

NumEncoders == 3

Encoders == 0..(NumEncoders - 1)

CharCode(c) ==
    CASE c = "a" -> 1 [] c = "b" -> 2 [] c = "c" -> 3 [] c = " " -> 4
      [] c = "." -> 5 [] c = "," -> 6 [] c = ";" -> 7 [] OTHER -> 8

RECURSIVE KeySum(_, _, _)
KeySum(t, lo, hi) ==
    IF lo > hi THEN 0
    ELSE IF lo = hi THEN lo * CharCode(t[lo])
    ELSE KeySum(t, lo, (lo + hi) \div 2) + KeySum(t, (lo + hi) \div 2 + 1, hi)

TextKey(t) == KeySum(t, 1, Len(t))

(* encode_text(text): the embedding the loaded model m gives the text. *)
encode_text(m, text) == EmbVecs[((TextKey(text) * (m + 1) + m) % Len(EmbVecs)) + 1]

(* sklearn cosine_similarity of two embeddings, as the float it returns. *)
cosine_similarity(v1, v2) ==
    Rat(16 * (v1[1] * v2[1] + v1[2] * v2[2]) + v1[3] + v2[3], 10000)

----------------------------------------------------------------------------
(* Similarity Scorer (app/scorer.py).                                      *)

compute_similarity_unclamped(vec1, vec2) == cosine_similarity(vec1, vec2)

compute_similarity(vec1, vec2) ==
    RatMax(Zero, RatMin(One, cosine_similarity(vec1, vec2)))

(* int(0.7 * max_score) is the integer part of the float product; the      *)
(* float product equals the exact one's integer part for max_score < 90.   *)
map_similarity_to_score(similarity, max_score) ==
    IF RatGeq(similarity, Rat(80, 100)) THEN max_score
    ELSE IF RatGeq(similarity, Rat(60, 100))
         THEN IntTrunc(RatMul(Rat(7, 10), RatInt(max_score)))
    ELSE IF RatGeq(similarity, Rat(40, 100))
         THEN IntTrunc(RatMul(Rat(4, 10), RatInt(max_score)))
    ELSE 0

generate_feedback(similarity) ==
    IF RatGeq(similarity, Rat(80, 100))
    THEN "Excellent answer. High semantic similarity to the model answer."
    ELSE IF RatGeq(similarity, Rat(60, 100))
    THEN "Good answer, but missing some important concepts."
    ELSE IF RatGeq(similarity, Rat(40, 100))
    THEN "Fair attempt, but the answer lacks clarity and key ideas."
    ELSE "Poor answer. The response is semantically different from the expected answer."

(* _score_question_basic (app/services/paper_service.py): one answered     *)
(* question under the loaded model m.                                       *)
basic_result_fixed_scale(question, student_answer, similarity) ==
    [question_number |-> question.question_number,
     student_answer |-> student_answer,
     marks_allocated |-> question.marks_allocated,
     awarded_score |-> map_similarity_to_score(similarity, 10),
     similarity_score |-> RoundTo(similarity, 1000),
     feedback |-> generate_feedback(similarity)]

basic_result(question, student_answer, similarity) ==
    [question_number |-> question.question_number,
     student_answer |-> student_answer,
     marks_allocated |-> question.marks_allocated,
     awarded_score |-> map_similarity_to_score(similarity, question.marks_allocated),
     similarity_score |-> RoundTo(similarity, 1000),
     feedback |-> generate_feedback(similarity)]

score_question_basic(m, question, student_answer) ==
    basic_result(question, student_answer,
                 compute_similarity(encode_text(m, question.model_answer),
                                    encode_text(m, student_answer)))

InvalidResult == [similarity_score |-> Zero, awarded_score |-> 0,
                  feedback |-> "Invalid answer: empty text provided"]

(* The loop body of process_batch_assessments (app/services/batch_service.py). *)
batch_item(m, item) ==
    IF Strip(item.model_answer) = <<>> \/ Strip(item.student_answer) = <<>>
    THEN InvalidResult
    ELSE LET similarity == compute_similarity(encode_text(m, item.model_answer),
                                              encode_text(m, item.student_answer))
         IN  [similarity_score |-> RoundTo(similarity, 1000),
              awarded_score |-> map_similarity_to_score(similarity, item.max_score),
              feedback |-> generate_feedback(similarity)]

RECURSIVE SumScores(_)
SumScores(results) ==
    IF results = <<>> THEN 0
    ELSE results[Len(results)].awarded_score
         + SumScores(SubSeq(results, 1, Len(results) - 1))

process_batch_assessments(m, answers) ==
    LET results == [i \in 1..Len(answers) |-> batch_item(m, answers[i])]
    IN  [ready |-> TRUE,
         results |-> results,
         average_score |-> IF Len(results) > 0
                           THEN RoundTo(Rat(SumScores(results), Len(results)), 100)
                           ELSE Zero]

----------------------------------------------------------------------------
(* Concept Matcher (app/enhanced_scorer.py, class ConceptMatcher).         *)

RECURSIVE Flatten(_)
Flatten(ss) == IF ss = <<>> THEN <<>> ELSE Head(ss) \o Flatten(Tail(ss))

StripAll(ss) == [i \in 1..Len(ss) |-> Strip(ss[i])]

(* sentences = [s.strip() for s in text.split('.') if s.strip()] *)
Sentences(text) == SelectSeq(StripAll(Split(text, ".")), NonEmpty)

concept_threshold == Rat(65, 100)

extract_key_phrases(text, min_words) ==
    LET sentences == Sentences(text)
        HasMinWords(p) == WordCount(p) >= min_words
        OfSentence(sent) ==
            (IF WordCount(sent) <= 15 THEN <<sent>> ELSE <<>>)
                \o SelectSeq(StripAll(Split(sent, ",")), HasMinWords)
    IN  Flatten([i \in 1..Len(sentences) |-> OfSentence(sentences[i])])

identify_key_concepts(model_answer, top_n) ==
    LET phrases == extract_key_phrases(model_answer, 2)
    IN  IF Len(phrases) > top_n THEN SubSeq(phrases, 1, top_n) ELSE phrases

(* The keys of a dict filled in this order: each key once, where it first  *)
(* came.                                                                    *)
RECURSIVE DictKeys(_)
DictKeys(ks) ==
    IF ks = <<>> THEN <<>>
    ELSE LET init == SubSeq(ks, 1, Len(ks) - 1)
             last == ks[Len(ks)]
         IN  IF \E i \in 1..Len(init) : init[i] = last
             THEN DictKeys(init)
             ELSE DictKeys(init) \o <<last>>

(* np.argmax: the first index of the largest entry. *)
ArgMax(row) ==
    CHOOSE i \in 1..Len(row) :
        /\ \A k \in 1..Len(row) : RatLeq(row[k], row[i])
        /\ \A k \in 1..(i - 1) : RatLt(row[k], row[i])

(* similarity_matrix[i]: the cosines of one concept with every phrase. *)
RECURSIVE similarity_row(_, _, _)
similarity_row(m, concept, student_phrases) ==
    IF student_phrases = <<>> THEN <<>>
    ELSE Append(similarity_row(m, concept,
                               SubSeq(student_phrases, 1, Len(student_phrases) - 1)),
                cosine_similarity(encode_text(m, concept),
                                  encode_text(m, student_phrases[Len(student_phrases)])))

(* One entry of the dict match_concepts returns.  matched_phrase is <<>>   *)
(* for None and <<phrase>> otherwise.                                       *)
concept_entry(concept, student_phrases, best_match_idx, best_score) ==
    [concept |-> concept,
     matched |-> RatGeq(best_score, concept_threshold),
     score |-> best_score,
     matched_phrase |-> IF RatGeq(best_score, concept_threshold)
                        THEN <<student_phrases[best_match_idx]>> ELSE <<>>]

best_match(concept, student_phrases, row, best_match_idx) ==
    concept_entry(concept, student_phrases, best_match_idx, row[best_match_idx])

first_match(concept, student_phrases, row, best_match_idx) ==
    concept_entry(concept, student_phrases, best_match_idx, row[1])

concept_match_first_phrase(m, concept, student_phrases) ==
    first_match(concept, student_phrases,
                similarity_row(m, concept, student_phrases),
                ArgMax(similarity_row(m, concept, student_phrases)))

concept_match(m, concept, student_phrases) ==
    best_match(concept, student_phrases,
               similarity_row(m, concept, student_phrases),
               ArgMax(similarity_row(m, concept, student_phrases)))

(* The dict match_concepts returns, as the sequence of its entries in key  *)
(* order.                                                                   *)
RECURSIVE concept_entries(_, _, _)
concept_entries(m, keys, student_phrases) ==
    IF keys = <<>> THEN <<>>
    ELSE Append(concept_entries(m, SubSeq(keys, 1, Len(keys) - 1), student_phrases),
                IF student_phrases = <<>>
                THEN [concept |-> keys[Len(keys)], matched |-> FALSE, score |-> Zero,
                      matched_phrase |-> <<>>]
                ELSE concept_match(m, keys[Len(keys)], student_phrases))

match_concepts(m, key_concepts, student_answer) ==
    IF key_concepts = <<>> THEN <<>>
    ELSE concept_entries(m, DictKeys(key_concepts),
                         extract_key_phrases(student_answer, 2))

MatchedCount(concept_matches) ==
    Cardinality({i \in 1..Len(concept_matches) : concept_matches[i].matched})

----------------------------------------------------------------------------
(* Rubric Scorer (app/enhanced_scorer.py, class RubricScorer).             *)

length_ratio_uncapped(model_len, student_len) ==
    IF model_len > 0 THEN Rat(student_len, model_len) ELSE Zero

length_ratio(model_len, student_len) ==
    IF model_len > 0 THEN RatMin(Rat(student_len, model_len), One) ELSE Zero

concept_coverage(matched_count, total_concepts) ==
    IF total_concepts > 0 THEN Rat(matched_count, total_concepts) ELSE Zero

completeness_result(ratio, coverage, matched_count, total_concepts) ==
    [score |-> RatAdd(RatMul(ratio, Rat(3, 10)), RatMul(coverage, Rat(7, 10))),
     length_ratio |-> ratio,
     concept_coverage |-> coverage,
     concepts_found |-> matched_count,
     total_concepts |-> total_concepts]

completeness_of(model_len, student_len, matched_count, total_concepts) ==
    completeness_result(length_ratio(model_len, student_len),
                        concept_coverage(matched_count, total_concepts),
                        matched_count, total_concepts)

completeness_for(m, model_answer, student_answer, key_concepts) ==
    completeness_of(WordCount(model_answer), WordCount(student_answer),
                    MatchedCount(match_concepts(m, key_concepts, student_answer)),
                    Len(key_concepts))

score_completeness(m, model_answer, student_answer) ==
    completeness_for(m, model_answer, student_answer,
                     identify_key_concepts(model_answer, 5))

accuracy_unclamped(similarity) == [score |-> similarity, similarity |-> similarity]

accuracy_result(similarity) ==
    [score |-> RatMax(Zero, RatMin(One, similarity)), similarity |-> similarity]

score_accuracy_unclamped(m, model_answer, student_answer) ==
    accuracy_unclamped(cosine_similarity(encode_text(m, model_answer),
                                         encode_text(m, student_answer)))

score_accuracy(m, model_answer, student_answer) ==
    accuracy_result(cosine_similarity(encode_text(m, model_answer),
                                      encode_text(m, student_answer)))

IsPunctuation(c) == c \in {".", "!", "?", ",", ";", ":"}

sentence_score(avg_sent_len) ==
    IF RatLeq(RatInt(10), avg_sent_len) /\ RatLeq(avg_sent_len, RatInt(20))
    THEN One
    ELSE RatMax(Rat(1, 2),
                RatSub(One, RatMul(RatAbs(RatSub(avg_sent_len, RatInt(15))),
                                   Rat(1, 30))))

clarity_result(avg_sent_len, has_punctuation, word_count) ==
    [score |-> RatAdd(RatAdd(RatMul(sentence_score(avg_sent_len), Rat(4, 10)),
                             RatMul(IF has_punctuation THEN One ELSE Rat(1, 2),
                                    Rat(3, 10))),
                      RatMul(RatMin(Rat(word_count, 20), One), Rat(3, 10))),
     avg_sentence_length |-> avg_sent_len,
     has_punctuation |-> has_punctuation,
     word_count |-> word_count]

clarity_of(sentence_count, has_punctuation, word_count) ==
    clarity_result(IF sentence_count > 0 THEN Rat(word_count, sentence_count) ELSE Zero,
                   has_punctuation, word_count)

score_clarity(student_answer) ==
    clarity_of(Len(SelectSeq(Split(student_answer, "."), LAMBDA s : Strip(s) # <<>>)),
               \E i \in 1..Len(student_answer) : IsPunctuation(student_answer[i]),
               WordCount(student_answer))

(* The default rubric_weights. *)
DefaultWeights == [accuracy |-> Rat(50, 100), completeness |-> Rat(35, 100),
                   clarity |-> Rat(15, 100)]

RubricKeys == {"accuracy", "completeness", "clarity"}

(* float('nan'), which a weight can be: every product and sum it enters   *)
(* is NaN again.                                                            *)
NaN == [n |-> 0, d |-> 0]

(* The weighted total of line 225-229. *)
weighted_total(weights, accuracy, completeness, clarity) ==
    IF \E k \in RubricKeys : weights[k] = NaN THEN NaN
    ELSE RatAdd(RatAdd(RatMul(accuracy.score, weights.accuracy),
                       RatMul(completeness.score, weights.completeness)),
                RatMul(clarity.score, weights.clarity))

(* The dict score_with_rubric returns; a dict of weights without one of    *)
(* the three keys raises KeyError.                                          *)
rubric_result_of(weights, accuracy, completeness, clarity) ==
    IF ~(RubricKeys \subseteq DOMAIN weights)
    THEN [ok |-> FALSE, error |-> "KeyError"]
    ELSE [ok |-> TRUE,
          total_score |-> weighted_total(weights, accuracy, completeness, clarity),
          components |-> [accuracy |-> accuracy, completeness |-> completeness,
                          clarity |-> clarity],
          rubric_weights |-> weights]

(* score_with_rubric.  rubric_weights is <<>> for None and <<dict>>        *)
(* otherwise.                                                               *)
score_with_rubric(m, model_answer, student_answer, rubric_weights) ==
    rubric_result_of(IF rubric_weights = <<>> THEN DefaultWeights ELSE rubric_weights[1],
                     score_accuracy(m, model_answer, student_answer),
                     score_completeness(m, model_answer, student_answer),
                     score_clarity(student_answer))

----------------------------------------------------------------------------
(* Feedback Generator (app/enhanced_scorer.py, class FeedbackGenerator).   *)

(* max(components.items(), key=score): the first of the largest. *)
best_component(components, items) ==
    items[ArgMax([i \in 1..Len(items) |-> components[items[i]].score])]

good_component_from_half(components, best) ==
    IF RatGeq(components[best].score, Rat(5, 10)) THEN <<"Good " \o best>> ELSE <<>>

good_component(components, best) ==
    IF RatGeq(components[best].score, Rat(6, 10)) THEN <<"Good " \o best>> ELSE <<>>

strong_components(components) ==
    (IF RatGeq(components.accuracy.score, Rat(8, 10))
     THEN <<"Strong conceptual accuracy">> ELSE <<>>)
    \o (IF RatGeq(components.completeness.score, Rat(8, 10))
        THEN <<"Comprehensive coverage of key points">> ELSE <<>>)
    \o (IF RatGeq(components.clarity.score, Rat(8, 10))
        THEN <<"Clear and well-structured writing">> ELSE <<>>)

identify_strengths(rubric_result) ==
    IF strong_components(rubric_result.components) # <<>>
    THEN strong_components(rubric_result.components)
    ELSE good_component(rubric_result.components,
                        best_component(rubric_result.components,
                                       <<"accuracy", "completeness", "clarity">>))

overall_message(total) ==
    IF RatGeq(total, Rat(9, 10))
    THEN "Excellent work! Your answer demonstrates comprehensive understanding."
    ELSE IF RatGeq(total, Rat(8, 10))
    THEN "Very good! Your answer is strong with minor areas for improvement."
    ELSE IF RatGeq(total, Rat(7, 10))
    THEN "Good effort! Your answer captures the main ideas but could be enhanced."
    ELSE IF RatGeq(total, Rat(6, 10))
    THEN "Fair attempt. Your answer shows some understanding but misses key elements."
    ELSE "Your answer needs significant improvement. Please review the material carefully."

accuracy_feedback(accuracy_score) ==
    IF RatGeq(accuracy_score, Rat(85, 100))
    THEN "Your answer is semantically accurate and aligns well with the model answer."
    ELSE IF RatGeq(accuracy_score, Rat(7, 10))
    THEN "Your answer is mostly accurate but contains some imprecise statements."
    ELSE "Your answer has significant accuracy issues. Review the core concepts."

(* The completeness message: its template and the two counts it shows. *)
completeness_feedback(comp) ==
    [text |-> IF RatGeq(comp.score, Rat(85, 100))
              THEN "Your answer is comprehensive, covering {}/{} key concepts."
              ELSE IF RatGeq(comp.score, Rat(6, 10))
              THEN "Your answer covers {}/{} key concepts. Consider expanding on missing points."
              ELSE "Your answer is incomplete, covering only {}/{} key concepts. Add more detail.",
     concepts_found |-> comp.concepts_found,
     total_concepts |-> comp.total_concepts]

clarity_feedback(clarity_score, word_count) ==
    IF RatGeq(clarity_score, Rat(8, 10))
    THEN "Your answer is well-structured and clearly written."
    ELSE IF RatGeq(clarity_score, Rat(6, 10))
    THEN "Your answer could be clearer. Consider improving sentence structure and punctuation."
    ELSE IF word_count < 15
    THEN "Your answer is too brief. Provide more detail and explanation."
    ELSE "Your answer lacks clarity. Break complex ideas into clear sentences."

(* missing_concepts = [c for c, m in concept_matches.items() if not m["matched"]] *)
missing_concepts_of(concept_matches) ==
    [i \in 1..Len(SelectSeq(concept_matches, LAMBDA e : ~e.matched)) |->
        SelectSeq(concept_matches, LAMBDA e : ~e.matched)[i].concept]

feedback_improvements_brief15(missing_concepts, word_count, accuracy_score) ==
    (IF missing_concepts # <<>> /\ Len(missing_concepts) <= 3
     THEN <<[text |-> "Consider including: {}", concepts |-> missing_concepts]>>
     ELSE IF Len(missing_concepts) > 3
     THEN <<[text |-> "Several key concepts are missing. Review the material for completeness.",
             concepts |-> <<>>]>>
     ELSE <<>>)
    \o (IF word_count < 15
        THEN <<[text |-> "Provide more detailed explanations.", concepts |-> <<>>]>>
        ELSE <<>>)
    \o (IF RatLt(accuracy_score, Rat(7, 10))
        THEN <<[text |-> "Review the fundamental concepts to improve accuracy.",
                concepts |-> <<>>]>>
        ELSE <<>>)

(* The improvement suggestions: each a template and the concepts it lists. *)
feedback_improvements(missing_concepts, word_count, accuracy_score) ==
    (IF missing_concepts # <<>> /\ Len(missing_concepts) <= 3
     THEN <<[text |-> "Consider including: {}", concepts |-> missing_concepts]>>
     ELSE IF Len(missing_concepts) > 3
     THEN <<[text |-> "Several key concepts are missing. Review the material for completeness.",
             concepts |-> <<>>]>>
     ELSE <<>>)
    \o (IF word_count < 20
        THEN <<[text |-> "Provide more detailed explanations.", concepts |-> <<>>]>>
        ELSE <<>>)
    \o (IF RatLt(accuracy_score, Rat(7, 10))
        THEN <<[text |-> "Review the fundamental concepts to improve accuracy.",
                concepts |-> <<>>]>>
        ELSE <<>>)

generate_detailed_feedback(m, rubric_result, model_answer, student_answer) ==
    [overall |-> overall_message(rubric_result.total_score),
     accuracy |-> accuracy_feedback(rubric_result.components.accuracy.score),
     completeness |-> completeness_feedback(rubric_result.components.completeness),
     clarity |-> clarity_feedback(rubric_result.components.clarity.score,
                                  rubric_result.components.clarity.word_count),
     improvements |->
         feedback_improvements(
             missing_concepts_of(match_concepts(m, identify_key_concepts(model_answer, 5),
                                                student_answer)),
             rubric_result.components.clarity.word_count,
             rubric_result.components.accuracy.score),
     strengths |-> identify_strengths(rubric_result)]

rubric_breakdown(rubric_result, name) ==
    [score |-> rubric_result.components[name].score,
     weight |-> rubric_result.rubric_weights[name],
     weighted_contribution |-> RatMul(rubric_result.components[name].score,
                                      rubric_result.rubric_weights[name])]

concept_analysis(total_concepts, concept_matches) ==
    [total_concepts |-> total_concepts,
     concepts_found |-> MatchedCount(concept_matches),
     concept_details |->
         [i \in 1..Len(concept_matches) |->
             [concept |-> concept_matches[i].concept,
              found |-> concept_matches[i].matched,
              confidence |-> RoundTo(concept_matches[i].score, 1000),
              matched_phrase |-> concept_matches[i].matched_phrase]]]

(* The dict enhanced_assessment returns; a KeyError of the rubric scorer   *)
(* propagates, and int(round(..)) of a NaN total raises ValueError.         *)
enhanced_result(m, rubric_result, key_concepts, model_answer, student_answer, max_score) ==
    IF ~rubric_result.ok THEN rubric_result
    ELSE IF rubric_result.total_score = NaN
    THEN [ok |-> FALSE, error |-> "ValueError"]
    ELSE [ok |-> TRUE,
          awarded_score |->
              RoundHalfEven(RatMul(rubric_result.total_score, RatInt(max_score))),
          max_score |-> max_score,
          percentage |-> RoundTo(RatMul(rubric_result.total_score, RatInt(100)), 10),
          rubric_breakdown |-> [accuracy |-> rubric_breakdown(rubric_result, "accuracy"),
                                completeness |-> rubric_breakdown(rubric_result, "completeness"),
                                clarity |-> rubric_breakdown(rubric_result, "clarity")],
          concept_analysis |->
              concept_analysis(Len(key_concepts),
                               match_concepts(m, key_concepts, student_answer)),
          feedback |-> generate_detailed_feedback(m, rubric_result, model_answer,
                                                  student_answer)]

(* enhanced_assessment: the rubric result turned into an integer score,    *)
(* with the feedback and the concept analysis.                              *)
enhanced_assessment(m, model_answer, student_answer, max_score, rubric_weights) ==
    enhanced_result(m, score_with_rubric(m, model_answer, student_answer, rubric_weights),
                    identify_key_concepts(model_answer, 5),
                    model_answer, student_answer, max_score)

----------------------------------------------------------------------------
(* SpecScorer: the similarity scorer as pure functions.  Init draws the     *)
(* input of one call; the action of its kind applies the function.          *)

MaxScore == 12

(* Similarities in [0, 1]: a grid and the values next to the band edges. *)
SimValues ==
    {Rat(k * 250, 10000) : k \in 0..40}
        \cup {Rat(k, 10000) : k \in {3999, 4001, 5999, 6001, 7999, 8001}}

(* The integer points of the circle of radius 25, each with a residue. *)
CosVecs ==
    {<<x, y, r>> : x \in -25..25, y \in -25..25, r \in -1..1} \ 
    {v \in {<<x, y, r>> : x \in -25..25, y \in -25..25, r \in -1..1} :
        v[1] * v[1] + v[2] * v[2] # 625}

TxtBlank == <<" ">>
TxtAB == <<"a", " ", "b">>
TxtBC == <<"b", " ", "c", ".">>

BatchTexts == {TxtBlank, TxtAB, TxtBC}

BatchScores == {1, 4}

MaxBatch == 2

BatchItems == [model_answer : BatchTexts, student_answer : BatchTexts,
               max_score : BatchScores]

MapJobs == [kind : {"map"}, similarity : SimValues, max_score : 1..MaxScore]

CosJobs == [kind : {"cos"}, vec1 : CosVecs, vec2 : CosVecs]

BatchJobs == [kind : {"batch"}, model : Encoders,
              answers : UNION {[1..n -> BatchItems] : n \in 0..MaxBatch}]

QuestionJobs == [kind : {"question"}, model : Encoders,
                 question : [question_number : {1}, model_answer : BatchTexts,
                             marks_allocated : BatchScores],
                 student_answer : BatchTexts \ {TxtBlank}]

InitScorer ==
    /\ job \in MapJobs \cup CosJobs \cup BatchJobs \cup QuestionJobs
    /\ out = NotReady
    /\ EmptyStore

MapSimilarityToScore ==
    /\ job.kind = "map" /\ ~out.ready
    /\ out' = [ready |-> TRUE,
               awarded_score |-> map_similarity_to_score(job.similarity, job.max_score)]
    /\ UNCHANGED <<job, store>>

ComputeSimilarity ==
    /\ job.kind = "cos" /\ ~out.ready
    /\ out' = [ready |-> TRUE, similarity |-> compute_similarity(job.vec1, job.vec2)]
    /\ UNCHANGED <<job, store>>

ProcessBatchAssessments ==
    /\ job.kind = "batch" /\ ~out.ready
    /\ out' = process_batch_assessments(job.model, job.answers)
    /\ UNCHANGED <<job, store>>

ScoreQuestionBasic ==
    /\ job.kind = "question" /\ ~out.ready
    /\ out' = [ready |-> TRUE,
               result |-> score_question_basic(job.model, job.question, job.student_answer)]
    /\ UNCHANGED <<job, store>>

NextScorer ==
    \/ MapSimilarityToScore
    \/ ComputeSimilarity
    \/ ProcessBatchAssessments
    \/ ScoreQuestionBasic

SpecScorer == InitScorer /\ [][NextScorer]_vars

(* C1: for every similarity s in [0,1] and every max_score > 0 the basic    *)
(* scorer awards max_score when s >= 0.80, round(0.7 x max_score) when      *)
(* 0.60 <= s < 0.80, round(0.4 x max_score) when 0.40 <= s < 0.60 and 0     *)
(* when s < 0.40.                                                           *)
C1_RoundedBands ==
    (out.ready /\ job.kind = "map") =>
        out.awarded_score =
            IF RatGeq(job.similarity, Rat(80, 100)) THEN job.max_score
            ELSE IF RatGeq(job.similarity, Rat(60, 100))
                 THEN RoundHalfEven(Rat(7 * job.max_score, 10))
            ELSE IF RatGeq(job.similarity, Rat(40, 100))
                 THEN RoundHalfEven(Rat(4 * job.max_score, 10))
            ELSE 0

(* C8: compute_similarity returns a value in [0, 1] for every pair of       *)
(* embedding vectors: a raw cosine below 0 is reported as 0, one above 1 as *)
(* 1, any other unchanged; so the similarity_score of every basic question  *)
(* result and of every batch result lies in [0, 1].                         *)
C8_SimilarityInUnit ==
    out.ready =>
        /\ job.kind = "cos" =>
              LET raw == cosine_similarity(job.vec1, job.vec2)
              IN  /\ InUnit(out.similarity)
                  /\ RatLt(raw, Zero) => out.similarity = Zero
                  /\ RatLt(One, raw) => out.similarity = One
                  /\ InUnit(raw) => out.similarity = raw
        /\ job.kind = "batch" =>
              \A i \in 1..Len(out.results) : InUnit(out.results[i].similarity_score)
        /\ job.kind = "question" => InUnit(out.result.similarity_score)

(* C8's case: a raw cosine above 1 (float overshoot) that came back as 1. *)
C8_Witness ==
    /\ out.ready /\ job.kind = "cos"
    /\ RatLt(One, cosine_similarity(job.vec1, job.vec2))
    /\ out.similarity = One

----------------------------------------------------------------------------
(* Grade assignment (app/crud/paper_crud.py).                              *)

assign_grade_exclusive_B(percentage) ==
    IF RatGeq(percentage, RatInt(90)) THEN "A+"
    ELSE IF RatGeq(percentage, RatInt(85)) THEN "A"
    ELSE IF RatGeq(percentage, RatInt(80)) THEN "A-"
    ELSE IF RatGeq(percentage, RatInt(75)) THEN "B+"
    ELSE IF RatLt(RatInt(70), percentage) THEN "B"
    ELSE IF RatGeq(percentage, RatInt(65)) THEN "B-"
    ELSE IF RatGeq(percentage, RatInt(60)) THEN "C+"
    ELSE IF RatGeq(percentage, RatInt(55)) THEN "C"
    ELSE IF RatGeq(percentage, RatInt(50)) THEN "C-"
    ELSE IF RatGeq(percentage, RatInt(45)) THEN "D"
    ELSE "F"

assign_grade(percentage) ==
    IF RatGeq(percentage, RatInt(90)) THEN "A+"
    ELSE IF RatGeq(percentage, RatInt(85)) THEN "A"
    ELSE IF RatGeq(percentage, RatInt(80)) THEN "A-"
    ELSE IF RatGeq(percentage, RatInt(75)) THEN "B+"
    ELSE IF RatGeq(percentage, RatInt(70)) THEN "B"
    ELSE IF RatGeq(percentage, RatInt(65)) THEN "B-"
    ELSE IF RatGeq(percentage, RatInt(60)) THEN "C+"
    ELSE IF RatGeq(percentage, RatInt(55)) THEN "C"
    ELSE IF RatGeq(percentage, RatInt(50)) THEN "C-"
    ELSE IF RatGeq(percentage, RatInt(45)) THEN "D"
    ELSE "F"

(* SpecGrade: assign_grade on every percentage from 0.0 to MaxTenths / 10,  *)
(* in tenths of a percent.                                                  *)

MaxTenths == 1100

GradeJobs == [kind : {"grade"}, tenths : 0..MaxTenths]

InitGrade ==
    /\ job \in GradeJobs
    /\ out = NotReady
    /\ EmptyStore

AssignGrade ==
    /\ job.kind = "grade" /\ ~out.ready
    /\ out' = [ready |-> TRUE, grade |-> assign_grade(Rat(job.tenths, 10))]
    /\ UNCHANGED <<job, store>>

NextGrade == AssignGrade

SpecGrade == InitGrade /\ [][NextGrade]_vars

(* The bands as the glossary lists them: <<inclusive lower bound, grade>>,  *)
(* best first; F is below them all.                                         *)
GradeBands == << <<90, "A+">>, <<85, "A">>, <<80, "A-">>, <<75, "B+">>, <<70, "B">>,
                 <<65, "B-">>, <<60, "C+">>, <<55, "C">>, <<50, "C-">>, <<45, "D">> >>

(* A grade's place in the order F < D < C- < ... < A+. *)
GradeRank(g) ==
    IF \E i \in 1..Len(GradeBands) : GradeBands[i][2] = g
    THEN Len(GradeBands) + 1 - (CHOOSE i \in 1..Len(GradeBands) : GradeBands[i][2] = g)
    ELSE 0

BandGrade(tenths) ==
    IF \E i \in 1..Len(GradeBands) : tenths >= 10 * GradeBands[i][1]
    THEN GradeBands[CHOOSE i \in 1..Len(GradeBands) :
                        /\ tenths >= 10 * GradeBands[i][1]
                        /\ \A k \in 1..(i - 1) : tenths < 10 * GradeBands[k][1]][2]
    ELSE "F"

(* C5: assign_grade maps every percentage to exactly one letter grade by    *)
(* the bands A+ >= 90, A >= 85, A- >= 80, B+ >= 75, B >= 70, B- >= 65,      *)
(* C+ >= 60, C >= 55, C- >= 50, D >= 45, F < 45, each lower bound           *)
(* inclusive; 91.2 gives A+, 44.9 gives F, exactly 70.0 gives B; the grade  *)
(* never decreases as the percentage grows.                                 *)
C5_GradeBands ==
    (out.ready /\ job.kind = "grade") =>
        /\ out.grade = BandGrade(job.tenths)
        /\ job.tenths = 912 => out.grade = "A+"
        /\ job.tenths = 449 => out.grade = "F"
        /\ job.tenths = 700 => out.grade = "B"
        /\ \A lower \in 0..job.tenths :
              GradeRank(assign_grade(Rat(lower, 10))) <= GradeRank(out.grade)

(* C5's case: the percentage is exactly 70.0 and the grade given is B. *)
C5_Witness == out.ready /\ job.kind = "grade" /\ job.tenths = 700 /\ out.grade = "B"

----------------------------------------------------------------------------
(* SpecRubric: the rubric scorer, the concept matcher and the enhanced      *)
(* assessment as pure functions of two texts under a loaded model.          *)

(* n times the word "a", separated by single spaces. *)
RepeatWord(n) == [i \in 1..(2 * n - 1) |-> IF i % 2 = 1 THEN "a" ELSE " "]

TxtDot == <<".">>
TxtTwoSentences == <<"a", " ", "b", ".", " ", "b", " ", "c">>
TxtCommaSentence == <<"a", ",", " ", "b", " ", "c", ".", " ", "c">>
TxtCommaOnly == <<"b", " ", "c", ",", " ", "a", " ", "b">>
TxtRepeated == <<"a", " ", "b", ".", " ", "a", " ", "b">>
TxtTwelve == RepeatWord(12) \o <<".">>
TxtLong == RepeatWord(24)
TxtVeryLong == RepeatWord(40) \o <<";">>

RubricTexts == {TxtBlank, TxtDot, TxtAB, TxtTwoSentences, TxtCommaSentence,
                TxtCommaOnly, TxtRepeated, TxtTwelve, TxtLong, TxtVeryLong}

AllOnesWeights == [accuracy |-> One, completeness |-> One, clarity |-> One]

NegativeWeights == [accuracy |-> Rat(-1, 2), completeness |-> Rat(1, 2),
                    clarity |-> Rat(1, 2)]

AccuracyOnlyWeights == [accuracy |-> One]

(* rubric_weights as callers give it: None, or a dict of floats. *)
WeightChoices == {<<>>, <<AllOnesWeights>>, <<NegativeWeights>>, <<AccuracyOnlyWeights>>}

ConceptLists ==
    {identify_key_concepts(t, 5) : t \in RubricTexts}
        \cup {<<TxtAB, <<"c">>, TxtAB>>, <<>>}

RubricScores == {1, 10}

RubricJobs == [kind : {"rubric"}, model : Encoders, model_answer : RubricTexts,
               student_answer : RubricTexts, rubric_weights : WeightChoices]

MatchJobs == [kind : {"match"}, model : Encoders, key_concepts : ConceptLists,
              student_answer : RubricTexts]

EnhancedJobs == [kind : {"enhanced"}, model : Encoders, model_answer : RubricTexts,
                 student_answer : RubricTexts, max_score : RubricScores,
                 rubric_weights : WeightChoices]

InitRubric ==
    /\ job \in RubricJobs \cup MatchJobs \cup EnhancedJobs
    /\ out = NotReady
    /\ EmptyStore

ScoreWithRubric ==
    /\ job.kind = "rubric" /\ ~out.ready
    /\ out' = [ready |-> TRUE,
               result |-> score_with_rubric(job.model, job.model_answer,
                                            job.student_answer, job.rubric_weights)]
    /\ UNCHANGED <<job, store>>

MatchConcepts ==
    /\ job.kind = "match" /\ ~out.ready
    /\ out' = [ready |-> TRUE,
               result |-> match_concepts(job.model, job.key_concepts, job.student_answer)]
    /\ UNCHANGED <<job, store>>

EnhancedAssessment ==
    /\ job.kind = "enhanced" /\ ~out.ready
    /\ out' = [ready |-> TRUE,
               result |-> enhanced_assessment(job.model, job.model_answer,
                                              job.student_answer, job.max_score,
                                              job.rubric_weights)]
    /\ UNCHANGED <<job, store>>

NextRubric == ScoreWithRubric \/ MatchConcepts \/ EnhancedAssessment

SpecRubric == InitRubric /\ [][NextRubric]_vars

(* C9: with the default weights score_with_rubric returns                   *)
(* total_score = 0.5 x accuracy + 0.35 x completeness + 0.15 x clarity,     *)
(* each of the three sub-scores lies in [0, 1], and so does total_score.    *)
C9_DefaultRubric ==
    (out.ready /\ job.kind = "rubric" /\ job.rubric_weights = <<>>) =>
        /\ out.result.ok
        /\ LET c == out.result.components
           IN  /\ out.result.total_score =
                      RatAdd(RatAdd(RatMul(Rat(1, 2), c.accuracy.score),
                                    RatMul(Rat(7, 20), c.completeness.score)),
                             RatMul(Rat(3, 20), c.clarity.score))
               /\ InUnit(c.accuracy.score)
               /\ InUnit(c.completeness.score)
               /\ InUnit(c.clarity.score)
        /\ InUnit(out.result.total_score)

(* C9's case: default weights, a raw cosine below 0 behind the accuracy,    *)
(* and completeness and clarity strictly inside (0, 1).                     *)
C9_Witness ==
    /\ out.ready /\ job.kind = "rubric" /\ job.rubric_weights = <<>>
    /\ RatLt(out.result.components.accuracy.similarity, Zero)
    /\ RatLt(Zero, out.result.components.completeness.score)
    /\ RatLt(out.result.components.completeness.score, One)
    /\ RatLt(out.result.components.clarity.score, One)

(* C10: match_concepts on a non-empty concept list.  If the candidate       *)
(* answer yields no phrases every concept is unmatched with score 0 and no  *)
(* matched phrase.  Otherwise each concept's score is the maximum cosine    *)
(* similarity between the concept and any candidate phrase, the concept is  *)
(* matched iff that maximum is >= 0.65, and matched_phrase is a maximising  *)
(* candidate phrase when matched and absent when not.                       *)
C10_MatchConcepts ==
    (out.ready /\ job.kind = "match" /\ job.key_concepts # <<>>) =>
        LET phrases == extract_key_phrases(job.student_answer, 2)
            Cos(concept, j) == cosine_similarity(encode_text(job.model, concept),
                                                 encode_text(job.model, phrases[j]))
        IN  /\ \A k \in 1..Len(job.key_concepts) :
                  Cardinality({i \in 1..Len(out.result) :
                                  out.result[i].concept = job.key_concepts[k]}) = 1
            /\ \A i \in 1..Len(out.result) :
                  LET e == out.result[i]
                  IN  IF phrases = <<>>
                      THEN ~e.matched /\ e.score = Zero /\ e.matched_phrase = <<>>
                      ELSE /\ \A j \in 1..Len(phrases) : RatLeq(Cos(e.concept, j), e.score)
                           /\ \E j \in 1..Len(phrases) : Cos(e.concept, j) = e.score
                           /\ e.matched <=> RatGeq(e.score, Rat(65, 100))
                           /\ e.matched =>
                                 \E j \in 1..Len(phrases) :
                                     /\ e.matched_phrase = <<phrases[j]>>
                                     /\ Cos(e.concept, j) = e.score
                           /\ ~e.matched => e.matched_phrase = <<>>

(* C10's case: several candidate phrases, one concept matched by a phrase   *)
(* that is not the first, another concept left unmatched.                   *)
C10_Witness ==
    /\ out.ready /\ job.kind = "match"
    /\ Len(extract_key_phrases(job.student_answer, 2)) >= 2
    /\ \E i \in 1..Len(out.result) :
          /\ out.result[i].matched
          /\ out.result[i].matched_phrase
                 # <<extract_key_phrases(job.student_answer, 2)[1]>>
    /\ \E i \in 1..Len(out.result) : ~out.result[i].matched

----------------------------------------------------------------------------
(* The paper store (app/crud/paper_crud.py, question_crud.py,               *)
(* student_crud.py).  A table is the sequence of its rows in insertion      *)
(* order; every crud function commits what it writes.                       *)

InsertionOrder(rows) == rows

(* sorted(rows, key=question_number): stable, so equal numbers keep their  *)
(* insertion order.                                                         *)
SortedByNumber(rows) ==
    LET Rank(i) == Cardinality({j \in 1..Len(rows) :
                        \/ rows[j].question_number < rows[i].question_number
                        \/ /\ rows[j].question_number = rows[i].question_number
                           /\ j <= i})
    IN  [k \in 1..Len(rows) |-> rows[CHOOSE i \in 1..Len(rows) : Rank(i) = k]]

(* paper.paper_questions: the rows of one paper. *)
paper_questions_of(rows, paper_id) ==
    SelectSeq(rows, LAMBDA pq : pq.paper_id = paper_id)

question_detail(bank, pq) ==
    [question_number |-> pq.question_number,
     question_id |-> pq.question_id,
     model_answer |-> bank[pq.question_id].model_answer,
     marks_allocated |-> pq.marks_allocated]

question_details(bank, sorted_rows) ==
    [k \in 1..Len(sorted_rows) |-> question_detail(bank, sorted_rows[k])]

(* get_paper_with_questions: <<>> for None, else <<paper_details>>, with   *)
(* the entries the graders read.  The dict's "is_active" entry is built    *)
(* from paper.is_active (line 162), an attribute class Paper of            *)
(* models/paper.py does not declare; that read is not modelled, and the    *)
(* model follows the graders from the dict onwards.                         *)
get_paper_with_questions(bank, paper_rows, pq_rows, paper_id) ==
    IF paper_id \notin 1..Len(paper_rows) THEN <<>>
    ELSE <<[id |-> paper_id,
            total_marks |-> paper_rows[paper_id].total_marks,
            questions |-> question_details(bank,
                              SortedByNumber(paper_questions_of(pq_rows, paper_id)))]>>

(* get_student_by_id: the ids of the rows with that student_id. *)
student_rows(rows, student_id) ==
    {i \in 1..Len(rows) : rows[i].student_id = student_id}

(* The columns class Student declares (models/student.py). *)
StudentColumns == {"id", "student_id", "name", "created_at"}

(* create_student: Student(student_id=, name=, email=, class_name=) goes   *)
(* to the declarative constructor, which raises TypeError on a keyword     *)
(* that is no attribute of the class, before anything is added.             *)
create_student(rows, student_id, name, keywords) ==
    IF keywords \subseteq StudentColumns
    THEN [ok |-> TRUE, rows |-> Append(rows, [student_id |-> student_id, name |-> name])]
    ELSE [ok |-> FALSE, error |-> "TypeError", rows |-> rows]

(* get_or_create_student: whether it returned, and the table afterwards.   *)
(* An existing row takes a non-empty name that differs from its own; a     *)
(* missing one is left to create_student with email and class_name.        *)
get_or_create_student(rows, student_id, name) ==
    IF student_rows(rows, student_id) = {}
    THEN create_student(rows, student_id, name,
                        {"student_id", "name", "email", "class_name"})
    ELSE [ok |-> TRUE,
          rows |-> IF name = "" THEN rows
                   ELSE [rows EXCEPT ![CHOOSE i \in student_rows(rows, student_id) :
                            \A k \in student_rows(rows, student_id) : i <= k].name = name]]

----------------------------------------------------------------------------
(* The paper grader (app/services/paper_service.py, class PaperGrader).    *)

(* answer_map.get(q_num, ""): the dict keeps the last answer given for a   *)
(* question number.                                                         *)
answer_lookup(answers, q_num) ==
    IF \A i \in 1..Len(answers) : answers[i].question_number # q_num THEN <<>>
    ELSE answers[CHOOSE i \in 1..Len(answers) :
                    /\ answers[i].question_number = q_num
                    /\ \A k \in (i + 1)..Len(answers) :
                           answers[k].question_number # q_num].answer

student_answer_unstripped(answers, q_num) == answer_lookup(answers, q_num)

(* student_answer = answer_map.get(q_num, "").strip() *)
student_answer_for(answers, q_num) == Strip(answer_lookup(answers, q_num))

create_unanswered_marked(question) ==
    [question_number |-> question.question_number,
     student_answer |-> <<>>,
     marks_allocated |-> question.marks_allocated,
     awarded_score |-> question.marks_allocated,
     similarity_score |-> Zero,
     feedback |-> "Question not attempted."]

create_unanswered_result(question) ==
    [question_number |-> question.question_number,
     student_answer |-> <<>>,
     marks_allocated |-> question.marks_allocated,
     awarded_score |-> 0,
     similarity_score |-> Zero,
     feedback |-> "Question not attempted."]

(* The dict _score_question_enhanced builds; assessment.get of the absent  *)
(* key "similarity_score" is None, written <<>>.                            *)
enhanced_question_result(question, student_answer, assessment) ==
    [question_number |-> question.question_number,
     student_answer |-> student_answer,
     marks_allocated |-> question.marks_allocated,
     awarded_score |-> assessment.awarded_score,
     percentage |-> assessment.percentage,
     similarity_score |-> <<>>,
     rubric_breakdown |-> assessment.rubric_breakdown,
     concept_analysis |-> assessment.concept_analysis,
     feedback |-> assessment.feedback]

score_question_enhanced(m, question, student_answer, rubric_weights) ==
    enhanced_assessment(m, question.model_answer, student_answer,
                        question.marks_allocated, rubric_weights)

(* The texts one call of match_concepts hands to the encoder. *)
match_encoded(key_concepts, student_phrases) ==
    IF key_concepts = <<>> \/ student_phrases = <<>> THEN <<>>
    ELSE key_concepts \o student_phrases

(* The texts enhanced_assessment hands to the encoder: score_accuracy,     *)
(* then match_concepts for the completeness, and, when the weights have    *)
(* their keys and give a number, again for the feedback and for the        *)
(* concept analysis.                                                        *)
enhanced_encoded(model_answer, student_answer, matching, keyed) ==
    <<model_answer, student_answer>> \o matching
        \o (IF keyed THEN matching \o matching ELSE <<>>)

(* One pass of the grading loop, lines 72-81 and 167-176: what was         *)
(* appended to question_results, whether it counts into total_score, and   *)
(* which texts went to the encoder.                                         *)
unanswered_step(question) ==
    [ok |-> TRUE, answered |-> FALSE, result |-> create_unanswered_result(question),
     encoded |-> <<>>]

basic_step(m, question, student_answer) ==
    [ok |-> TRUE, answered |-> TRUE,
     result |-> score_question_basic(m, question, student_answer),
     encoded |-> <<question.model_answer, student_answer>>]

enhanced_step(question, student_answer, assessment, encoded) ==
    IF assessment.ok
    THEN [ok |-> TRUE, answered |-> TRUE,
          result |-> enhanced_question_result(question, student_answer, assessment),
          encoded |-> encoded]
    ELSE [ok |-> FALSE, error |-> assessment.error, encoded |-> encoded]

grade_answer(m, method, question, student_answer, rubric_weights) ==
    IF student_answer = <<>> THEN unanswered_step(question)
    ELSE IF method = "basic" THEN basic_step(m, question, student_answer)
    ELSE enhanced_step(question, student_answer,
             score_question_enhanced(m, question, student_answer, rubric_weights),
             enhanced_encoded(question.model_answer, student_answer,
                 match_encoded(identify_key_concepts(question.model_answer, 5),
                               extract_key_phrases(student_answer, 2)),
                 \/ rubric_weights = <<>>
                 \/ /\ RubricKeys \subseteq DOMAIN rubric_weights[1]
                    /\ \A k \in RubricKeys : rubric_weights[1][k] # NaN))

grade_question(m, method, question, answers, rubric_weights) ==
    grade_answer(m, method, question,
                 student_answer_for(answers, question.question_number), rubric_weights)

(* The passes of the loop over paper_details["questions"], in order. *)
RECURSIVE grading_steps(_, _, _, _, _)
grading_steps(m, method, qs, answers, rubric_weights) ==
    IF qs = <<>> THEN <<>>
    ELSE Append(grading_steps(m, method, SubSeq(qs, 1, Len(qs) - 1), answers,
                              rubric_weights),
                grade_question(m, method, qs[Len(qs)], answers, rubric_weights))

(* How many passes ran to their end: all of them, or those before the      *)
(* first that raised.                                                       *)
steps_done(steps) ==
    IF \A k \in 1..Len(steps) : steps[k].ok THEN Len(steps)
    ELSE (CHOOSE k \in 1..Len(steps) :
              ~steps[k].ok /\ \A i \in 1..(k - 1) : steps[i].ok) - 1

question_results_of(steps, done) == [k \in 1..done |-> steps[k].result]

(* total_score += result["awarded_score"], in the answered branch only. *)
RECURSIVE total_score_of(_, _)
total_score_of(steps, done) ==
    IF done = 0 THEN 0
    ELSE total_score_of(steps, done - 1)
         + (IF steps[done].answered THEN steps[done].result.awarded_score ELSE 0)

(* The encoder's inputs, pass by pass, the pass that raised included. *)
encoded_of(steps, done) ==
    [k \in 1..(IF done < Len(steps) THEN done + 1 ELSE done) |-> steps[k].encoded]

(* feedback_str: the "overall" entry when the feedback is a dict. *)
feedback_str(result) ==
    IF "rubric_breakdown" \in DOMAIN result THEN result.feedback.overall
    ELSE result.feedback

concept_analysis_of(result) ==
    IF "concept_analysis" \in DOMAIN result THEN <<result.concept_analysis>> ELSE <<>>

(* _save_question_response: the row added, if a row of the paper has the   *)
(* question number; the first such row is taken.                            *)
save_question_response(submission_id, rows, result) ==
    IF \A i \in 1..Len(rows) : rows[i].question_number # result.question_number
    THEN <<>>
    ELSE <<[submission_id |-> submission_id,
            paper_question_id |->
                rows[CHOOSE i \in 1..Len(rows) :
                        /\ rows[i].question_number = result.question_number
                        /\ \A k \in 1..(i - 1) :
                               rows[k].question_number # result.question_number].id,
            student_answer |-> result.student_answer,
            similarity_score |-> result.similarity_score,
            awarded_score |-> result.awarded_score,
            marks_allocated |-> result.marks_allocated,
            feedback |-> feedback_str(result),
            concept_analysis |-> concept_analysis_of(result)]>>

saved_responses(submission_id, rows, question_results) ==
    Flatten([k \in 1..Len(question_results) |->
                save_question_response(submission_id, rows, question_results[k])])

(* percentage = (total_score / total_marks * 100) if total_marks > 0 else 0 *)
percentage_of(total_score, total_marks) ==
    IF total_marks > 0 THEN RatMul(Rat(total_score, total_marks), RatInt(100)) ELSE Zero

performance_message(percentage) ==
    IF RatGeq(percentage, RatInt(85))
    THEN "Outstanding performance! You demonstrated comprehensive understanding across all topics."
    ELSE IF RatGeq(percentage, RatInt(70))
    THEN "Very good work! You showed strong grasp of most concepts."
    ELSE IF RatGeq(percentage, RatInt(60))
    THEN "Good effort! You understood key concepts but could improve in some areas."
    ELSE IF RatGeq(percentage, RatInt(50))
    THEN "Satisfactory performance. Review areas where you lost marks and strengthen your understanding."
    ELSE "Your performance needs significant improvement. Please review all topics carefully."

(* One line "Question n: awarded/allocated marks" of the areas lists. *)
area_line(q) ==
    [question_number |-> q.question_number, awarded_score |-> q.awarded_score,
     marks_allocated |-> q.marks_allocated]

(* areas[:3], line by line *)
area_lines(areas) ==
    [k \in 1..(IF Len(areas) > 3 THEN 3 ELSE Len(areas)) |-> area_line(areas[k])]

(* _generate_overall_feedback: the parts of the text it formats.  The      *)
(* ratio awarded_score / marks_allocated is taken for every question       *)
(* result and raises ZeroDivisionError on an allocation of 0.               *)
generate_overall_feedback(percentage, question_results) ==
    IF \E k \in 1..Len(question_results) : question_results[k].marks_allocated = 0
    THEN [ok |-> FALSE, error |-> "ZeroDivisionError"]
    ELSE [ok |-> TRUE,
          message |-> performance_message(percentage),
          total_questions |-> Len(question_results),
          attempted |-> Cardinality({k \in 1..Len(question_results) :
                                        question_results[k].awarded_score > 0}),
          percentage |-> RoundTo(percentage, 10),
          strong_areas |->
              area_lines(SelectSeq(question_results,
                  LAMBDA q : RatGeq(Rat(q.awarded_score, q.marks_allocated), Rat(75, 100)))),
          weak_areas |->
              area_lines(SelectSeq(question_results,
                  LAMBDA q : RatLt(Rat(q.awarded_score, q.marks_allocated), Rat(5, 10))))]

RECURSIVE SumRat(_)
SumRat(xs) == IF xs = <<>> THEN Zero
              ELSE RatAdd(SumRat(SubSeq(xs, 1, Len(xs) - 1)), xs[Len(xs)])

average_score_undivided(rubric_results, name) ==
    RoundTo(SumRat([k \in 1..Len(rubric_results) |->
                       rubric_results[k].rubric_breakdown[name].score]), 100)

(* sum(scores) / len(scores), formatted :.2f *)
average_score(rubric_results, name) ==
    RoundTo(RatMul(SumRat([k \in 1..Len(rubric_results) |->
                              rubric_results[k].rubric_breakdown[name].score]),
                   Rat(1, Len(rubric_results))), 100)

rubric_analysis(rubric_results) ==
    IF rubric_results = <<>> THEN <<>>
    ELSE <<[accuracy |-> average_score(rubric_results, "accuracy"),
            completeness |-> average_score(rubric_results, "completeness"),
            clarity |-> average_score(rubric_results, "clarity")]>>

with_rubric_analysis(feedback, question_results) ==
    IF ~feedback.ok THEN feedback
    ELSE [f \in DOMAIN feedback \cup {"rubric_analysis"} |->
             IF f = "rubric_analysis"
             THEN rubric_analysis(SelectSeq(question_results,
                      LAMBDA q : "rubric_breakdown" \in DOMAIN q))
             ELSE feedback[f]]

generate_overall_feedback_enhanced(percentage, question_results) ==
    with_rubric_analysis(generate_overall_feedback(percentage, question_results),
                         question_results)

overall_feedback_of(method, percentage, question_results) ==
    IF method = "basic" THEN generate_overall_feedback(percentage, question_results)
    ELSE generate_overall_feedback_enhanced(percentage, question_results)

(* What the loop leaves behind: the results appended, the total, the       *)
(* encoder's inputs, and <<error>> if a pass raised.                        *)
grading_run(steps, done) ==
    [question_results |-> question_results_of(steps, done),
     total_score |-> total_score_of(steps, done),
     encoded |-> encoded_of(steps, done),
     raised |-> IF done < Len(steps) THEN <<steps[done + 1].error>> ELSE <<>>]

grading_loop(m, method, qs, answers, rubric_weights) ==
    grading_run(grading_steps(m, method, qs, answers, rubric_weights),
                steps_done(grading_steps(m, method, qs, answers, rubric_weights)))

(* create_paper_submission: the row added. *)
create_paper_submission(paper_details, student) ==
    [paper_id |-> paper_details.id, student_id |-> student,
     total_marks |-> paper_details.total_marks,
     total_score |-> <<>>, percentage |-> <<>>, grade |-> <<>>,
     overall_feedback |-> <<>>, grading_completed |-> FALSE]

(* finalize_paper_submission: the row afterwards. *)
finalize_paper_submission(submission, total_score, overall_feedback) ==
    [submission EXCEPT
        !.total_score = <<total_score>>,
        !.percentage = <<RoundTo(percentage_of(total_score, submission.total_marks), 100)>>,
        !.grade = <<assign_grade(percentage_of(total_score, submission.total_marks))>>,
        !.overall_feedback = <<overall_feedback>>,
        !.grading_completed = TRUE]

(* The dict grade_paper_basic and grade_paper_enhanced return. *)
paper_result(paper_details, submission_id, run, percentage, overall_feedback) ==
    [submission_id |-> submission_id,
     paper_id |-> paper_details.id,
     total_score |-> run.total_score,
     total_marks |-> paper_details.total_marks,
     percentage |-> RoundTo(percentage, 100),
     grade |-> assign_grade(percentage),
     overall_feedback |-> overall_feedback,
     question_results |-> run.question_results]

(* Lines 88-116 and 183-211: what the call returns or raises after the     *)
(* loop.                                                                    *)
after_loop(paper_details, submission_id, run, percentage, overall_feedback) ==
    IF run.raised # <<>>
    THEN [ready |-> TRUE, ok |-> FALSE, error |-> run.raised[1], encoded |-> run.encoded]
    ELSE IF ~overall_feedback.ok
    THEN [ready |-> TRUE, ok |-> FALSE, error |-> overall_feedback.error,
          encoded |-> run.encoded]
    ELSE [ready |-> TRUE, ok |-> TRUE,
          value |-> paper_result(paper_details, submission_id, run, percentage,
                                 overall_feedback),
          encoded |-> run.encoded]

grading_return(method, paper_details, submission_id, run) ==
    after_loop(paper_details, submission_id, run,
               percentage_of(run.total_score, paper_details.total_marks),
               overall_feedback_of(method,
                   percentage_of(run.total_score, paper_details.total_marks),
                   run.question_results))

----------------------------------------------------------------------------
(* Spec: the store and the paper grader as one state machine.  The store   *)
(* starts without papers and questions; crud calls fill it and grading     *)
(* calls read and extend it.                                                *)
(* The crud functions take total_marks, marks_allocated and model_answer   *)
(* as given; the bounds gt=0 of schemas/paper.py bind the routes only, so  *)
(* the value sets below hold 0 and blank texts next to the ordinary ones.   *)

MaxQuestions == 1
MaxPapers == 1
MaxPaperQuestions == 2
MaxAnswers == 2
MaxSubmissions == 1

TxtPadded == <<" ", "a", " ", "b">>

ModelAnswers == {TxtAB, TxtPadded, TxtBlank}

AnswerTexts == {TxtBlank, TxtAB, TxtPadded}

TotalMarksValues == {0, 3}

MarksValues == {0, 2}

QuestionNumbers == {1, 2}

StudentIds == {"STU001"}

StudentNames == {"Ada"}

(* The names of the student rows the database holds when the process       *)
(* starts.                                                                  *)
StoredNames == {"Ada", "Bea"}

(* The students table when the process starts: empty, or with a row that   *)
(* was stored before.                                                       *)
StoredStudents ==
    {<<>>} \cup {<<[student_id |-> s, name |-> n]>> : s \in StudentIds, n \in StoredNames}

NaNWeights == [accuracy |-> NaN, completeness |-> Rat(35, 100), clarity |-> Rat(15, 100)]

PaperWeightChoices == {<<>>, <<AllOnesWeights>>, <<AccuracyOnlyWeights>>, <<NaNWeights>>}

AnswerEntries == [question_number : QuestionNumbers, answer : AnswerTexts]

AnswerLists == UNION {[1..n -> AnswerEntries] : n \in 0..MaxAnswers}

BasicCalls == [kind : {"grade_paper_basic"}, method : {"basic"},
               paper_id : 1..MaxPapers, student_id : StudentIds,
               student_name : StudentNames, answers : AnswerLists,
               rubric_weights : {<<>>}]

EnhancedCalls == [kind : {"grade_paper_enhanced"}, method : {"enhanced"},
                  paper_id : 1..MaxPapers, student_id : StudentIds,
                  student_name : StudentNames, answers : AnswerLists,
                  rubric_weights : PaperWeightChoices]

NoCall == [kind |-> "none"]

Init ==
    /\ job = NoCall
    /\ out = NotReady
    /\ questions = <<>> /\ papers = <<>> /\ paper_questions = <<>>
    /\ students \in StoredStudents
    /\ submissions = <<>> /\ responses = <<>>
    /\ _model = <<>>

(* A call is taken when the one before it has been answered; the model     *)
(* follows the service until MaxSubmissions submissions are stored.         *)
Serving == ~out.ready /\ Len(submissions) < MaxSubmissions

CreateQuestion ==
    /\ Serving
    /\ Len(questions) < MaxQuestions
    /\ \E model_answer \in ModelAnswers :
          questions' = Append(questions, [model_answer |-> model_answer])
    /\ job' = NoCall /\ out' = NotReady
    /\ UNCHANGED <<papers, paper_questions, students, submissions, responses, _model>>

CreatePaper ==
    /\ Serving
    /\ Len(papers) < MaxPapers
    /\ \E total_marks \in TotalMarksValues :
          papers' = Append(papers, [total_marks |-> total_marks])
    /\ job' = NoCall /\ out' = NotReady
    /\ UNCHANGED <<questions, paper_questions, students, submissions, responses, _model>>

(* The paper and the question are existing rows. *)
AddQuestionToPaper ==
    /\ Serving
    /\ Len(paper_questions) < MaxPaperQuestions
    /\ \E paper_id \in 1..Len(papers), question_id \in 1..Len(questions),
          question_number \in QuestionNumbers, marks_allocated \in MarksValues :
          paper_questions' =
              Append(paper_questions,
                     [id |-> Len(paper_questions) + 1, paper_id |-> paper_id,
                      question_id |-> question_id, question_number |-> question_number,
                      marks_allocated |-> marks_allocated])
    /\ job' = NoCall /\ out' = NotReady
    /\ UNCHANGED <<questions, papers, students, submissions, responses, _model>>

(* submit_and_grade_paper around the grading call: a ValueError becomes   *)
(* HTTPException 404, any other exception 500.                              *)
http_status(returned) ==
    IF returned.ok THEN 200
    ELSE IF returned.error = "ValueError" THEN 404
    ELSE 500

route_response(returned) ==
    [f \in DOMAIN returned \cup {"status"} |->
        IF f = "status" THEN http_status(returned) ELSE returned[f]]

(* raise ValueError(f"Paper {paper_id} not found"): nothing is written. *)
PaperNotFound(call) ==
    /\ job' = call
    /\ out' = route_response([ready |-> TRUE, ok |-> FALSE, error |-> "ValueError",
                              encoded |-> <<>>])
    /\ UNCHANGED store

(* The writes of one grading call, each committed as it is made: the       *)
(* student, the submission, a response per question result, and the        *)
(* finalisation when nothing raised.                                        *)
PaperGraded(call, m, paper_details, run, returned) ==
    /\ job' = call
    /\ out' = route_response(returned)
    /\ students' = get_or_create_student(students, call.student_id,
                                         call.student_name).rows
    /\ submissions' =
          Append(submissions,
                 IF returned.ok
                 THEN finalize_paper_submission(
                          create_paper_submission(paper_details,
                              CHOOSE i \in student_rows(students', call.student_id) : TRUE),
                          run.total_score, returned.value.overall_feedback)
                 ELSE create_paper_submission(paper_details,
                          CHOOSE i \in student_rows(students', call.student_id) : TRUE))
    /\ responses' =
          responses \o saved_responses(Len(submissions) + 1,
                           paper_questions_of(paper_questions, call.paper_id),
                           run.question_results)
    /\ _model' = IF \E k \in 1..Len(run.encoded) : run.encoded[k] # <<>>
                 THEN <<m>> ELSE _model
    /\ UNCHANGED <<questions, papers, paper_questions>>

GradeWith(call, m, paper_details, run) ==
    PaperGraded(call, m, paper_details, run,
                grading_return(call.method, paper_details, Len(submissions) + 1, run))

(* get_or_create_student raised: the call ends before it writes. *)
StudentNotCreated(call, created) ==
    /\ job' = call
    /\ out' = route_response([ready |-> TRUE, ok |-> FALSE, error |-> created.error,
                              encoded |-> <<>>])
    /\ UNCHANGED store

(* get_model loads the model at the first encoding; it stays loaded. *)
GradePaper(call, found) ==
    IF found = <<>> THEN PaperNotFound(call)
    ELSE IF ~get_or_create_student(students, call.student_id, call.student_name).ok
    THEN StudentNotCreated(call, get_or_create_student(students, call.student_id,
                                                       call.student_name))
    ELSE \E m \in (IF _model = <<>> THEN Encoders ELSE {_model[1]}) :
            GradeWith(call, m, found[1],
                      grading_loop(m, call.method, found[1].questions, call.answers,
                                   call.rubric_weights))

GradePaperBasic ==
    /\ Serving
    /\ \E call \in BasicCalls :
          GradePaper(call, get_paper_with_questions(questions, papers, paper_questions,
                                                    call.paper_id))

GradePaperEnhanced ==
    /\ Serving
    /\ \E call \in EnhancedCalls :
          GradePaper(call, get_paper_with_questions(questions, papers, paper_questions,
                                                    call.paper_id))

(* The caller takes what the grading call returned or raised. *)
Respond ==
    /\ out.ready
    /\ job' = NoCall /\ out' = NotReady
    /\ UNCHANGED store

Next ==
    \/ CreateQuestion
    \/ CreatePaper
    \/ AddQuestionToPaper
    \/ GradePaperBasic
    \/ GradePaperEnhanced
    \/ Respond

Spec == Init /\ [][Next]_vars

(* A grading call has returned its dict. *)
Returned ==
    /\ job.kind \in {"grade_paper_basic", "grade_paper_enhanced"}
    /\ out.ready /\ out.ok

RECURSIVE SumAwarded(_)
SumAwarded(results) ==
    IF results = <<>> THEN 0
    ELSE SumAwarded(Tail(results)) + Head(results).awarded_score

Blank(text) == \A i \in 1..Len(text) : text[i] = " "

(* The answers the submission gives to a question number: the last entry   *)
(* with that number, if there is one.                                       *)
GivenAnswers(q_num) ==
    {job.answers[i].answer : i \in
        {i \in 1..Len(job.answers) :
            /\ job.answers[i].question_number = q_num
            /\ \A k \in (i + 1)..Len(job.answers) :
                   job.answers[k].question_number # q_num}}

Unanswered(q_num) == \A a \in GivenAnswers(q_num) : Blank(a)

(* The questions of the graded paper, in the order they are graded. *)
GradedQuestions ==
    get_paper_with_questions(questions, papers, paper_questions, job.paper_id)[1].questions

C4_ZeroTotalMarks ==
    (/\ job.kind \in {"grade_paper_basic", "grade_paper_enhanced"}
     /\ out.ready
     /\ job.paper_id \in 1..Len(papers)
     /\ papers[job.paper_id].total_marks = 0)
        => \/ out.ok /\ out.value.percentage = Zero
           \/ ~out.ok /\ out.error \in {"KeyError", "TypeError"}

----------------------------------------------------------------------------
(* SpecPhrases: extract_key_phrases as a pure function of a text.  The      *)
(* texts are all strings of up to MaxPhraseLen characters over a word       *)
(* character and the delimiters the function looks at, and sentences on     *)
(* both sides of its 15-word limit.                                         *)

MaxPhraseLen == 4

PhraseAlphabet == {"a", " ", ".", ",", ";"}

TxtFifteen == RepeatWord(15)
TxtSixteen == RepeatWord(16)
TxtSixteenComma == RepeatWord(14) \o <<",", " ">> \o RepeatWord(2)

PhraseTexts ==
    UNION {[1..n -> PhraseAlphabet] : n \in 0..MaxPhraseLen}
        \cup {TxtFifteen, TxtSixteen, TxtSixteenComma, TxtTwelve, TxtVeryLong}

MinWordsValues == {1, 2, 3}

PhraseJobs == [kind : {"phrases"}, text : PhraseTexts, min_words : MinWordsValues]

InitPhrases ==
    /\ job \in PhraseJobs
    /\ out = NotReady
    /\ EmptyStore

ExtractKeyPhrases ==
    /\ job.kind = "phrases" /\ ~out.ready
    /\ out' = [ready |-> TRUE, result |-> extract_key_phrases(job.text, job.min_words)]
    /\ UNCHANGED <<job, store>>

NextPhrases == ExtractKeyPhrases

SpecPhrases == InitPhrases /\ [][NextPhrases]_vars

(* The pieces of a sentence between commas and semicolons, stripped. *)
SubPhrases(sent) == Flatten([i \in 1..Len(Split(sent, ";")) |->
                                StripAll(Split(Split(sent, ";")[i], ","))])

(* C11: with the default min_words, extract_key_phrases returns the         *)
(* sentences of the text and their comma- and semicolon-delimited           *)
(* sub-phrases: every returned phrase has at least 2 words, a returned      *)
(* whole sentence has at most 15 words, and every sub-phrase of at least 2  *)
(* words between commas or semicolons is returned.                          *)
C11_KeyPhrases ==
    (out.ready /\ job.kind = "phrases" /\ job.min_words = 2) =>
        /\ \A i \in 1..Len(out.result) : WordCount(out.result[i]) >= 2
        /\ \A i \in 1..Len(out.result) :
              (\E k \in 1..Len(Sentences(job.text)) :
                   Sentences(job.text)[k] = out.result[i])
                  => WordCount(out.result[i]) <= 15
        /\ \A k \in 1..Len(Sentences(job.text)) :
              \A j \in 1..Len(SubPhrases(Sentences(job.text)[k])) :
                  WordCount(SubPhrases(Sentences(job.text)[k])[j]) >= 2
                      => \E i \in 1..Len(out.result) :
                             out.result[i] = SubPhrases(Sentences(job.text)[k])[j]

----------------------------------------------------------------------------
(* SpecCoverage: score_completeness as a pure function of a model answer   *)
(* and a candidate answer under a loaded model, called for a candidate and *)
(* again for the same candidate with content of the model answer added.    *)

TxtManyPhrases == TxtCommaOnly \o <<".", " ">> \o TxtCommaSentence

CoverageModels == {TxtBlank, TxtDot, <<"a">>, TxtAB, TxtTwoSentences,
                   TxtCommaSentence, TxtManyPhrases}

CoverageAnswers == {TxtBlank, <<"a">>, TxtAB, TxtBC, TxtTwoSentences, TxtCommaOnly}

(* How a writer joins further content to an answer. *)
Separators == {<<" ">>, <<",", " ">>, <<".", " ">>}

(* Content that matches the model answer: one of its key concepts. *)
MatchingContent(model_answer) ==
    {identify_key_concepts(model_answer, 5)[i] :
        i \in 1..Len(identify_key_concepts(model_answer, 5))}

CoverageJobs ==
    UNION {[kind : {"completeness"}, model : Encoders, model_answer : {t},
            student_answer : CoverageAnswers, separator : Separators,
            added : MatchingContent(t) \cup {<<>>}] : t \in CoverageModels}

InitCoverage ==
    /\ job \in CoverageJobs
    /\ out = [ready |-> FALSE, earlier |-> <<>>]
    /\ EmptyStore

ScoreCompleteness ==
    /\ job.kind = "completeness" /\ ~out.ready
    /\ out' = [ready |-> TRUE,
               result |-> score_completeness(job.model, job.model_answer,
                                             job.student_answer),
               earlier |-> out.earlier]
    /\ UNCHANGED <<job, store>>

(* The candidate answer is extended and handed in again. *)
AddContent ==
    /\ job.kind = "completeness" /\ out.ready /\ job.added # <<>>
    /\ job' = [job EXCEPT !.student_answer = @ \o job.separator \o job.added,
                          !.added = <<>>]
    /\ out' = [ready |-> FALSE, earlier |-> <<out.result>>]
    /\ UNCHANGED store

NextCoverage == ScoreCompleteness \/ AddContent

SpecCoverage == InitCoverage /\ [][NextCoverage]_vars

(* C12: for a fixed model answer, adding matching content to a candidate   *)
(* answer never decreases the concept_coverage score_completeness returns. *)
C12_CoverageMonotonic ==
    (out.ready /\ job.kind = "completeness" /\ out.earlier # <<>>) =>
        RatLeq(out.earlier[1].concept_coverage, out.result.concept_coverage)

----------------------------------------------------------------------------
(* SpecAssess: the single-pair basic scorer (app/scorer.py assess_answer,  *)
(* app/services/assessment_service.py assess_single_answer) behind its     *)
(* route (app/api/routes/assessment.py).                                    *)

(* assess_answer(student_answer, model_answer, max_score): the tuple       *)
(* (similarity, score) it returns.                                          *)
assess_answer(m, student_answer, model_answer, max_score) ==
    [type |-> "tuple",
     items |-> <<compute_similarity(encode_text(m, student_answer),
                                    encode_text(m, model_answer)),
                 map_similarity_to_score(
                     compute_similarity(encode_text(m, student_answer),
                                        encode_text(m, model_answer)), max_score)>>]

(* value[key] for a string key: a tuple raises TypeError, a dict gives the *)
(* entry or raises KeyError.                                                *)
getitem(value, key) ==
    IF value.type = "tuple" THEN [ok |-> FALSE, error |-> "TypeError"]
    ELSE IF key \in DOMAIN value.items THEN [ok |-> TRUE, value |-> value.items[key]]
    ELSE [ok |-> FALSE, error |-> "KeyError"]

(* The dict of lines 8-12, built entry by entry from result. *)
single_answer_dict(similarity, score, feedback) ==
    IF ~similarity.ok THEN [ok |-> FALSE, error |-> similarity.error]
    ELSE IF ~score.ok THEN [ok |-> FALSE, error |-> score.error]
    ELSE IF ~feedback.ok THEN [ok |-> FALSE, error |-> feedback.error]
    ELSE [ok |-> TRUE,
          value |-> [similarity_score |-> RoundTo(similarity.value, 1000),
                     awarded_score |-> score.value,
                     feedback |-> feedback.value]]

single_answer_result(result) ==
    single_answer_dict(getitem(result, "similarity"), getitem(result, "score"),
                       getitem(result, "feedback"))

(* assess_single_answer passes its arguments by position: model_answer     *)
(* lands in assess_answer's student_answer and the other way round.         *)
assess_single_answer(m, model_answer, student_answer, max_score) ==
    single_answer_result(assess_answer(m, model_answer, student_answer, max_score))

(* What the route does with the service's outcome. *)
endpoint_response(outcome) ==
    IF outcome.ok THEN [ready |-> TRUE, status |-> 200, result |-> outcome]
    ELSE [ready |-> TRUE, status |-> 500, result |-> outcome]

assess_answer_endpoint(m, data) ==
    IF Strip(data.model_answer) = <<>>
    THEN [ready |-> TRUE, status |-> 400,
          result |-> [ok |-> FALSE, error |-> "model_answer cannot be empty"]]
    ELSE endpoint_response(assess_single_answer(m, data.model_answer,
                                                data.student_answer, data.max_score))

AssessTexts == {<<>>, TxtBlank, TxtAB, TxtBC, TxtPadded, TxtTwoSentences}

AssessScores == {-1, 0, 1, 5, 10}

AssessJobs == [kind : {"assess"}, model : Encoders, model_answer : AssessTexts,
               student_answer : AssessTexts, max_score : AssessScores]

InitAssess ==
    /\ job \in AssessJobs
    /\ out = NotReady
    /\ EmptyStore

AssessAnswerEndpoint ==
    /\ job.kind = "assess" /\ ~out.ready
    /\ out' = assess_answer_endpoint(job.model, job)
    /\ UNCHANGED <<job, store>>

NextAssess == AssessAnswerEndpoint

SpecAssess == InitAssess /\ [][NextAssess]_vars

(* C13: for a non-blank model answer, a non-blank student answer and a     *)
(* positive max_score the single-pair basic scorer does not fail and       *)
(* returns the similarity of the two answers, the score awarded for it and *)
(* the band feedback.                                                       *)
C13_SingleAnswer ==
    (/\ out.ready /\ job.kind = "assess"
     /\ ~Blank(job.model_answer) /\ ~Blank(job.student_answer)
     /\ job.max_score > 0)
        => /\ out.result.ok
           /\ LET similarity ==
                      compute_similarity(encode_text(job.model, job.student_answer),
                                         encode_text(job.model, job.model_answer))
              IN  /\ out.result.value.similarity_score = RoundTo(similarity, 1000)
                  /\ out.result.value.awarded_score
                         = map_similarity_to_score(similarity, job.max_score)
                  /\ out.result.value.feedback = generate_feedback(similarity)

----------------------------------------------------------------------------
(* Claims on the failures of a grading call, under Spec.                    *)

C16_UnknownQuestion ==
    (/\ job.kind \in {"grade_paper_basic", "grade_paper_enhanced"}
     /\ out.ready
     /\ job.paper_id \in 1..Len(papers)
     /\ student_rows(students, job.student_id) # {}
     /\ \E i \in 1..Len(job.answers) :
           \A k \in 1..Len(GradedQuestions) :
               GradedQuestions[k].question_number # job.answers[i].question_number)
        => out.status = 404

----------------------------------------------------------------------------
(* Claims on score_completeness, under SpecCoverage.                        *)

(* The concepts of the model answer that some phrase of the candidate      *)
(* reaches with a cosine similarity of at least 0.65, each counted once.    *)
MatchedConcepts(m, model_answer, student_answer) ==
    {c \in MatchingContent(model_answer) :
        \E j \in 1..Len(extract_key_phrases(student_answer, 2)) :
            RatGeq(cosine_similarity(
                       encode_text(m, c),
                       encode_text(m, extract_key_phrases(student_answer, 2)[j])),
                   Rat(65, 100))}

(* C18: score_completeness returns                                          *)
(* score = 0.3 x length_ratio + 0.7 x concept_coverage, where length_ratio *)
(* = min(student word count / model word count, 1.0), 0 when the model     *)
(* answer has no words, and concept_coverage = matched concept count /     *)
(* total concept count over at most 5 concepts of the model answer, 0 when *)
(* no concept is identified.                                                *)
C18_Completeness ==
    (out.ready /\ job.kind = "completeness") =>
        LET r == out.result
            model_len == WordCount(job.model_answer)
            student_len == WordCount(job.student_answer)
        IN  /\ r.score = RatAdd(RatMul(Rat(3, 10), r.length_ratio),
                                RatMul(Rat(7, 10), r.concept_coverage))
            /\ r.length_ratio =
                   (IF model_len = 0 THEN Zero
                    ELSE IF student_len >= model_len THEN One
                    ELSE Rat(student_len, model_len))
            /\ r.total_concepts <= 5
            /\ r.total_concepts =
                   (IF Len(extract_key_phrases(job.model_answer, 2)) > 5 THEN 5
                    ELSE Len(extract_key_phrases(job.model_answer, 2)))
            /\ r.concepts_found
                   = Cardinality(MatchedConcepts(job.model, job.model_answer,
                                                 job.student_answer))
            /\ r.concept_coverage =
                   (IF r.total_concepts = 0 THEN Zero
                    ELSE Rat(r.concepts_found, r.total_concepts))

(* C18's case: a model answer with more than 5 phrases, a shorter          *)
(* candidate that matches some of its 5 concepts and misses others.         *)
C18_Witness ==
    /\ out.ready /\ job.kind = "completeness"
    /\ Len(extract_key_phrases(job.model_answer, 2)) > 5
    /\ out.result.total_concepts = 5
    /\ RatLt(Zero, out.result.concept_coverage)
    /\ RatLt(out.result.concept_coverage, One)
    /\ RatLt(out.result.length_ratio, One)

----------------------------------------------------------------------------
(* SpecFeedback: the feedback generator as pure functions.                  *)
(* generate_detailed_feedback is given the rubric result of its two texts, *)
(* as enhanced_assessment gives it; _identify_strengths is given the three *)
(* sub-scores.                                                              *)

FeedbackModels == {TxtDot, TxtAB, TxtTwoSentences, TxtCommaSentence, TxtManyPhrases}

FeedbackAnswers == {TxtAB, TxtBC, TxtCommaOnly, TxtManyPhrases, RepeatWord(17),
                    RepeatWord(19), RepeatWord(20), RepeatWord(22), TxtLong}

(* Sub-scores in [0, 1] on both sides of the limits 0.6 and 0.8. *)
StrengthScores == {Rat(k, 100) : k \in {0, 50, 59, 60, 61, 79, 80, 81, 100}}

FeedbackJobs == [kind : {"feedback"}, model : Encoders, model_answer : FeedbackModels,
                 student_answer : FeedbackAnswers]

StrengthJobs == [kind : {"strengths"}, accuracy : StrengthScores,
                 completeness : StrengthScores, clarity : StrengthScores]

InitFeedback ==
    /\ job \in FeedbackJobs \cup StrengthJobs
    /\ out = NotReady
    /\ EmptyStore

GenerateDetailedFeedback ==
    /\ job.kind = "feedback" /\ ~out.ready
    /\ out' = [ready |-> TRUE,
               rubric_result |-> score_with_rubric(job.model, job.model_answer,
                                                   job.student_answer, <<>>),
               result |-> generate_detailed_feedback(
                              job.model,
                              score_with_rubric(job.model, job.model_answer,
                                                job.student_answer, <<>>),
                              job.model_answer, job.student_answer)]
    /\ UNCHANGED <<job, store>>

IdentifyStrengths ==
    /\ job.kind = "strengths" /\ ~out.ready
    /\ out' = [ready |-> TRUE,
               result |-> identify_strengths(
                              [components |-> [accuracy |-> [score |-> job.accuracy],
                                               completeness |-> [score |-> job.completeness],
                                               clarity |-> [score |-> job.clarity]]])]
    /\ UNCHANGED <<job, store>>

NextFeedback == GenerateDetailedFeedback \/ IdentifyStrengths

SpecFeedback == InitFeedback /\ [][NextFeedback]_vars

(* The concepts of the model answer no phrase of the candidate matches. *)
MissingConcepts(m, model_answer, student_answer) ==
    MatchingContent(model_answer) \ MatchedConcepts(m, model_answer, student_answer)

(* The entry on missing concepts: their names when there are 1 to 3, the   *)
(* generic message when there are more.                                     *)
ConceptEntryFits(entry, missing) ==
    IF Cardinality(missing) <= 3
    THEN /\ entry.text = "Consider including: {}"
         /\ Len(entry.concepts) = Cardinality(missing)
         /\ {entry.concepts[i] : i \in 1..Len(entry.concepts)} = missing
    ELSE entry.text
             = "Several key concepts are missing. Review the material for completeness."

(* C19: the improvements of generate_detailed_feedback are, in this order  *)
(* and nothing else: one entry naming the missing concepts when 1 to 3     *)
(* concepts are unmatched, or one generic review-the-material entry when   *)
(* more than 3 are; a brevity warning iff the student word count < 20; an  *)
(* accuracy-review warning iff the accuracy score < 0.7.                    *)
C19_Improvements ==
    (out.ready /\ job.kind = "feedback") =>
        LET imp == out.result.improvements
            missing == MissingConcepts(job.model, job.model_answer, job.student_answer)
            nConcept == IF missing = {} THEN 0 ELSE 1
            nBrief == IF WordCount(job.student_answer) < 20 THEN 1 ELSE 0
            nAccuracy == IF RatLt(out.rubric_result.components.accuracy.score, Rat(7, 10))
                         THEN 1 ELSE 0
        IN  /\ Len(imp) = nConcept + nBrief + nAccuracy
            /\ nConcept = 1 => ConceptEntryFits(imp[1], missing)
            /\ nBrief = 1
                  => imp[nConcept + 1].text = "Provide more detailed explanations."
            /\ nAccuracy = 1
                  => imp[nConcept + nBrief + 1].text
                         = "Review the fundamental concepts to improve accuracy."

(* C19's case: two or three concepts named as missing, an answer of 15 to  *)
(* 19 words that gets the brevity warning, and the accuracy warning last.  *)
C19_Witness ==
    /\ out.ready /\ job.kind = "feedback"
    /\ WordCount(job.student_answer) \in 15..19
    /\ Len(out.result.improvements) = 3
    /\ Len(out.result.improvements[1].concepts) >= 2

(* C19's other case: more than 3 concepts unmatched and an answer of 20    *)
(* words or more: the generic entry and no brevity warning.                 *)
C19_WitnessGeneric ==
    /\ out.ready /\ job.kind = "feedback"
    /\ Cardinality(MissingConcepts(job.model, job.model_answer, job.student_answer)) > 3
    /\ WordCount(job.student_answer) >= 20


(* The strength message of each criterion. *)
StrengthNames ==
    [accuracy |-> "Strong conceptual accuracy",
     completeness |-> "Comprehensive coverage of key points",
     clarity |-> "Clear and well-structured writing"]

(* The "Good <criterion>" entries of the criteria that score at least 0.6  *)
(* and no less than any other criterion.                                    *)
GoodOfHighest ==
    {<<"Good " \o k>> : k \in {c \in RubricKeys :
        /\ RatGeq(job[c], Rat(6, 10))
        /\ \A other \in RubricKeys : RatGeq(job[c], job[other])}}

(* C20: _identify_strengths lists exactly the criteria whose sub-score is  *)
(* >= 0.8; when none is, the single highest-scoring criterion if that      *)
(* score is >= 0.6; otherwise nothing. It never has more than 3 entries    *)
(* and never names a criterion scoring below 0.6.                           *)
C20_Strengths ==
    (out.ready /\ job.kind = "strengths") =>
        LET strong == {k \in RubricKeys : RatGeq(job[k], Rat(8, 10))}
            listed == {out.result[i] : i \in 1..Len(out.result)}
        IN  /\ Len(out.result) <= 3
            /\ strong # {}
                  => /\ listed = {StrengthNames[k] : k \in strong}
                     /\ Len(out.result) = Cardinality(strong)
            /\ (strong = {} /\ GoodOfHighest # {}) => out.result \in GoodOfHighest
            /\ (strong = {} /\ GoodOfHighest = {}) => out.result = <<>>
            /\ \A k \in RubricKeys :
                  RatLt(job[k], Rat(6, 10))
                      => /\ StrengthNames[k] \notin listed
                         /\ ("Good " \o k) \notin listed

(* C20's case: no criterion reaches 0.8, completeness is the highest at    *)
(* 0.6 or more, and it is the one entry.                                    *)
C20_Witness ==
    /\ out.ready /\ job.kind = "strengths"
    /\ RatLt(job.accuracy, job.completeness) /\ RatLt(job.clarity, Rat(6, 10))
    /\ RatLt(job.completeness, Rat(8, 10))
    /\ out.result = <<"Good completeness">>

----------------------------------------------------------------------------
(* Claims on the grading loop and the paper-level feedback, under Spec.    *)

(* The paper_questions rows of the graded paper, in insertion order. *)
PaperRows == SelectSeq(paper_questions, LAMBDA pq : pq.paper_id = job.paper_id)

----------------------------------------------------------------------------
(* SpecOverall: _generate_overall_feedback as a pure function of the       *)
(* percentage and of the question results the loop hands it, the k-th      *)
(* being that of the k-th question of the paper.                            *)

MaxResults == 4

(* awarded_score and marks_allocated of a result: an award within an       *)
(* allocation of 4, or the allocation 0 the store accepts.                  *)
AreaMarks == {<<a, 4>> : a \in 0..4} \cup {<<0, 0>>}

AreaResults(n) ==
    {[k \in 1..n |-> [question_number |-> k, awarded_score |-> f[k][1],
                      marks_allocated |-> f[k][2]]] : f \in [1..n -> AreaMarks]}

OverallJobs ==
    [kind : {"overall_feedback"}, percentage : {Zero, RatInt(60)},
     question_results : UNION {AreaResults(n) : n \in 0..MaxResults}]

InitOverall ==
    /\ job \in OverallJobs
    /\ out = NotReady
    /\ EmptyStore

GenerateOverallFeedback ==
    /\ job.kind = "overall_feedback" /\ ~out.ready
    /\ out' = [ready |-> TRUE,
               result |-> generate_overall_feedback(job.percentage, job.question_results)]
    /\ UNCHANGED <<job, store>>

NextOverall == GenerateOverallFeedback

SpecOverall == InitOverall /\ [][NextOverall]_vars

(* awarded/allocated of the k-th question result handed in. *)
AreaRatio(k) ==
    Rat(job.question_results[k].awarded_score, job.question_results[k].marks_allocated)

(* The positions of the results an areas list names. *)
AreaListed(lines) == {lines[i].question_number : i \in 1..Len(lines)}

(* C22: the paper-level feedback lists up to three strongest questions,    *)
(* those of the highest awarded/allocated ratios among the questions with  *)
(* ratio >= 0.75, and up to three weakest, those of the lowest ratios      *)
(* among the questions with ratio < 0.5; no question with a ratio in       *)
(* [0.5, 0.75) is in either list.                                           *)
C22_Areas ==
    (out.ready /\ job.kind = "overall_feedback" /\ out.result.ok) =>
        LET all == 1..Len(job.question_results)
            strong == {k \in all : RatGeq(AreaRatio(k), Rat(75, 100))}
            weak == {k \in all : RatLt(AreaRatio(k), Rat(5, 10))}
            listedStrong == AreaListed(out.result.strong_areas)
            listedWeak == AreaListed(out.result.weak_areas)
        IN  /\ Len(out.result.strong_areas) = Cardinality(listedStrong)
            /\ Len(out.result.weak_areas) = Cardinality(listedWeak)
            /\ listedStrong \subseteq strong /\ listedWeak \subseteq weak
            /\ Cardinality(listedStrong)
                  = (IF Cardinality(strong) > 3 THEN 3 ELSE Cardinality(strong))
            /\ Cardinality(listedWeak)
                  = (IF Cardinality(weak) > 3 THEN 3 ELSE Cardinality(weak))
            /\ \A k \in listedStrong, other \in strong \ listedStrong :
                  RatGeq(AreaRatio(k), AreaRatio(other))
            /\ \A k \in listedWeak, other \in weak \ listedWeak :
                  RatLeq(AreaRatio(k), AreaRatio(other))


(* The question results of the returned dict that were scored: those with  *)
(* an answer.                                                               *)
ScoredResults ==
    SelectSeq(out.value.question_results, LAMBDA q : q.student_answer # <<>>)

(* The mean of one rubric sub-score over the scored results, to 2 places. *)
MeanOfScored(name) ==
    RoundTo(RatMul(SumRat([k \in 1..Len(ScoredResults) |->
                              ScoredResults[k].rubric_breakdown[name].score]),
                   Rat(1, Len(ScoredResults))), 100)

C23_WitnessOmitted ==
    /\ Returned /\ job.method = "enhanced"
    /\ Len(out.value.question_results) = 2
    /\ ScoredResults = <<>>
    /\ out.value.overall_feedback.rubric_analysis = <<>>

----------------------------------------------------------------------------
(* SpecEncoder: the process-wide encoder of app/model.py under threads.    *)
(* Caller 0 is the startup event of app/main.py, which calls get_model     *)
(* before the server takes requests; callers 1..NumThreads are the         *)
(* threadpool threads that run the synchronous route handlers and reach    *)
(* encode_text or encode_texts.  job[c] is where caller c stands, out      *)
(* counts the SentenceTransformer objects constructed (the k-th is k) and  *)
(* keeps the instances the callers encoded with.                            *)

NumThreads == 2
MaxCalls == 2

Threads == 1..NumThreads
Callers == 0..NumThreads

InitEncoder ==
    /\ job = [c \in Callers |->
                 [pc |-> IF c = 0 THEN "startup" ELSE "idle", call |-> "none",
                  instance |-> 0, calls |-> 0]]
    /\ out = [constructed |-> 0, used |-> {}]
    /\ EmptyStore

AcceptingUnready == TRUE

(* Requests are served once the startup event has returned. *)
Accepting == job[0].pc = "ready"

(* startup_event: init_db(), then get_model(). *)
StartupEvent ==
    /\ job[0].pc = "startup"
    /\ job' = [job EXCEPT ![0].pc = "check", ![0].call = "startup_event"]
    /\ UNCHANGED <<out, store>>

(* model = get_model(), first line of encode_text and of encode_texts. *)
EncodeText ==
    /\ Accepting
    /\ \E t \in Threads, call \in {"encode_text", "encode_texts"} :
          /\ job[t].pc = "idle" /\ job[t].calls < MaxCalls
          /\ job' = [job EXCEPT ![t].pc = "check", ![t].call = call]
    /\ UNCHANGED <<out, store>>

(* if _model is None: *)
CheckModel ==
    /\ \E c \in Callers :
          /\ job[c].pc = "check"
          /\ job' = [job EXCEPT ![c].pc = IF _model = <<>> THEN "construct" ELSE "return"]
    /\ UNCHANGED <<out, store>>

(* SentenceTransformer('all-MiniLM-L6-v2'): a new object. *)
ConstructModel ==
    /\ \E c \in Callers :
          /\ job[c].pc = "construct"
          /\ job' = [job EXCEPT ![c].pc = "assign", ![c].instance = out.constructed + 1]
    /\ out' = [out EXCEPT !.constructed = out.constructed + 1]
    /\ UNCHANGED store

(* _model = <the new object> *)
AssignModel ==
    /\ \E c \in Callers :
          /\ job[c].pc = "assign"
          /\ _model' = <<job[c].instance>>
          /\ job' = [job EXCEPT ![c].pc = "return"]
    /\ UNCHANGED <<out, questions, papers, paper_questions, students, submissions,
                   responses>>

(* return _model: the global as it is now. *)
ReturnModel ==
    /\ \E c \in Callers :
          /\ job[c].pc = "return"
          /\ job' = [job EXCEPT ![c].pc = IF c = 0 THEN "ready" ELSE "encode",
                                ![c].instance = _model[1]]
    /\ UNCHANGED <<out, store>>

(* model.encode(...) with the instance get_model returned. *)
ModelEncode ==
    /\ \E t \in Threads :
          /\ job[t].pc = "encode"
          /\ out' = [out EXCEPT !.used = out.used \cup {job[t].instance}]
          /\ job' = [job EXCEPT ![t].pc = "idle", ![t].calls = job[t].calls + 1]
    /\ UNCHANGED store

NextEncoder ==
    \/ StartupEvent
    \/ EncodeText
    \/ CheckModel
    \/ ConstructModel
    \/ AssignModel
    \/ ReturnModel
    \/ ModelEncode

SpecEncoder == InitEncoder /\ [][NextEncoder]_vars

(* C24: the encoder model is loaded at most once per process: under any    *)
(* interleaving of concurrent encode_text and encode_texts calls get_model *)
(* constructs the SentenceTransformer a single time and every caller uses  *)
(* that one instance.                                                       *)
C24_LoadedOnce ==
    /\ out.constructed <= 1
    /\ out.used \subseteq {1}
    /\ \A t \in Threads : job[t].pc = "encode" => job[t].instance = 1
    /\ _model \in {<<>>, <<1>>}

(* C24's case: two threads are in encode_text and encode_texts at the same *)
(* time, each holding the instance get_model returned, after earlier calls *)
(* encoded with it; one object was constructed.                             *)
C24_Witness ==
    /\ job[1].pc = "encode" /\ job[2].pc = "encode"
    /\ job[1].call # job[2].call
    /\ job[1].instance = job[2].instance
    /\ out.used = {1} /\ out.constructed = 1


(* C30: get_or_create_student is a get-or-create: a grading call for a     *)
(* student_id without a record creates exactly one student record and      *)
(* grading proceeds; a call for a student_id with a record creates none    *)
(* and changes at most the name; there is never more than one record per   *)
(* student_id.                                                              *)
C30_GetOrCreate ==
    [][(~out.ready /\ out'.ready /\ job'.paper_id \in 1..Len(papers)) =>
          /\ student_rows(students, job'.student_id) = {}
                => /\ Cardinality(student_rows(students', job'.student_id)) = 1
                   /\ Len(students') = Len(students) + 1
                   /\ Len(submissions') = Len(submissions) + 1
          /\ student_rows(students, job'.student_id) # {}
                => /\ Len(students') = Len(students)
                   /\ \A i \in 1..Len(students) :
                         students'[i].student_id = students[i].student_id
          /\ \A s \in StudentIds : Cardinality(student_rows(students', s)) <= 1]_vars


StoredResponses ==
    SelectSeq(responses, LAMBDA r : r.submission_id = out.value.submission_id)

----------------------------------------------------------------------------
(* Claim on the concept counts, under SpecCoverage.                         *)

MatchResults ==
    match_concepts(job.model, identify_key_concepts(job.model_answer, 5),
                   job.student_answer)

(* C26: every concept identified from the model answer is counted: the     *)
(* number of match results of score_completeness equals total_concepts,    *)
(* also when phrase extraction yields one phrase more than once, and when  *)
(* every identified concept has a best match of at least 0.65 (an answer   *)
(* identical to the model answer, for one) concepts_found = total_concepts *)
(* and concept_coverage = 1.0.                                              *)
C26_ConceptsCounted ==
    (out.ready /\ job.kind = "completeness") =>
        /\ Len(MatchResults) = out.result.total_concepts
        /\ (/\ MatchingContent(job.model_answer) # {}
            /\ MatchedConcepts(job.model, job.model_answer, job.student_answer)
                   = MatchingContent(job.model_answer))
               => /\ out.result.concepts_found = out.result.total_concepts
                  /\ out.result.concept_coverage = One

----------------------------------------------------------------------------
(* SpecRequests: grading calls that run at the same time.  The routes are  *)
(* sync functions, which the server runs on worker threads; every request  *)
(* has a session and a PaperGrader of its own, and the calls meet in the   *)
(* tables and in the encoder the startup event loaded.  A step is one      *)
(* statement of grade_paper_basic that reads or writes a table, or one     *)
(* pass of its loop.  job holds each worker's call and locals, out what    *)
(* its last call returned or raised.                                        *)

NumWorkers == 2

MaxGradings == 3

Workers == 1..NumWorkers

RequestQuestions == <<[model_answer |-> TxtAB], [model_answer |-> TxtBC]>>

RequestPapers == <<[total_marks |-> 4]>>

RequestPaperQuestions ==
    <<[id |-> 1, paper_id |-> 1, question_id |-> 1, question_number |-> 1,
       marks_allocated |-> 2],
      [id |-> 2, paper_id |-> 1, question_id |-> 2, question_number |-> 2,
       marks_allocated |-> 2]>>

RequestStudents == <<[student_id |-> "STU001", name |-> "Ada"]>>

RequestAnswers ==
    {<<[question_number |-> 1, answer |-> TxtAB]>>,
     <<[question_number |-> 1, answer |-> TxtAB], [question_number |-> 2, answer |-> TxtBC]>>,
     <<[question_number |-> 1, answer |-> TxtBC], [question_number |-> 2, answer |-> TxtAB]>>}

RequestCalls == [kind : {"grade_paper_basic"}, method : {"basic"},
                 paper_id : {1, 2}, student_id : {"STU001", "STU002"},
                 student_name : {"Ada"}, answers : RequestAnswers,
                 rubric_weights : {<<>>}]

InitRequests ==
    /\ job = [w \in Workers |-> [pc |-> "idle", calls |-> 0]]
    /\ out = [w \in Workers |-> NotReady]
    /\ questions = RequestQuestions
    /\ papers = RequestPapers
    /\ paper_questions = RequestPaperQuestions
    /\ students = RequestStudents
    /\ submissions = <<>> /\ responses = <<>>
    /\ _model \in {<<m>> : m \in Encoders}

RECURSIVE BegunCalls(_)
BegunCalls(w) == IF w = 0 THEN 0 ELSE job[w].calls + BegunCalls(w - 1)

SumOfTotals(rows) ==
    LET RECURSIVE Sum(_)
        Sum(k) == IF k = 0 THEN 0
                  ELSE Sum(k - 1) + (IF rows[k].total_score = <<>> THEN 0
                                     ELSE rows[k].total_score[1])
    IN  Sum(Len(rows))

total_score_carried(rows) == SumOfTotals(rows)

(* total_score = 0: a local of the call, whatever the table holds. *)
total_score_at_start(rows) == 0

(* The call raised: the route answers with the error. *)
Raise(w, error) ==
    /\ job' = [job EXCEPT ![w].pc = "idle"]
    /\ out' = [out EXCEPT ![w] = route_response([ready |-> TRUE, ok |-> FALSE,
                                                 error |-> error, encoded |-> <<>>])]

(* A request arrives and a worker takes it. *)
SubmitAndGradePaper(w) ==
    /\ job[w].pc = "idle"
    /\ BegunCalls(NumWorkers) < MaxGradings
    /\ \E call \in RequestCalls :
          job' = [job EXCEPT ![w] = [pc |-> "paper", calls |-> job[w].calls + 1,
                                     call |-> call]]
    /\ out' = [out EXCEPT ![w] = NotReady]
    /\ UNCHANGED store

ReadPaper(w) ==
    /\ job[w].pc = "paper"
    /\ LET found == get_paper_with_questions(questions, papers, paper_questions,
                                             job[w].call.paper_id)
       IN  IF found = <<>> THEN Raise(w, "ValueError")
           ELSE /\ job' = [job EXCEPT ![w] = [pc |-> "student", calls |-> job[w].calls,
                                              call |-> job[w].call,
                                              paper_details |-> found[1]]]
                /\ UNCHANGED out
    /\ UNCHANGED store

GetOrCreateStudent(w) ==
    /\ job[w].pc = "student"
    /\ LET created == get_or_create_student(students, job[w].call.student_id,
                                            job[w].call.student_name)
       IN  IF ~created.ok
           THEN Raise(w, created.error) /\ UNCHANGED students
           ELSE /\ students' = created.rows
                /\ job' = [job EXCEPT ![w].pc = "submission"]
                /\ UNCHANGED out
    /\ UNCHANGED <<questions, papers, paper_questions, submissions, responses, _model>>

CreatePaperSubmission(w) ==
    /\ job[w].pc = "submission"
    /\ submissions' =
          Append(submissions,
                 create_paper_submission(job[w].paper_details,
                     CHOOSE i \in student_rows(students, job[w].call.student_id) : TRUE))
    /\ job' = [job EXCEPT ![w] = [pc |-> "loop", calls |-> job[w].calls,
                                  call |-> job[w].call,
                                  paper_details |-> job[w].paper_details,
                                  submission_id |-> Len(submissions) + 1,
                                  question_results |-> <<>>,
                                  total_score |-> total_score_at_start(submissions)]]
    /\ UNCHANGED <<out, questions, papers, paper_questions, students, responses, _model>>

(* One pass of the loop: the question is scored with the loaded encoder,   *)
(* the result appended and its response stored.                             *)
GradeQuestion(w) ==
    /\ job[w].pc = "loop"
    /\ Len(job[w].question_results) < Len(job[w].paper_details.questions)
    /\ LET step == grade_question(_model[1], "basic",
                       job[w].paper_details.questions[Len(job[w].question_results) + 1],
                       job[w].call.answers, <<>>)
       IN  /\ job' = [job EXCEPT
                         ![w].question_results = Append(@, step.result),
                         ![w].total_score =
                             @ + (IF step.answered THEN step.result.awarded_score ELSE 0)]
           /\ responses' =
                 responses \o save_question_response(job[w].submission_id,
                                  paper_questions_of(paper_questions,
                                                     job[w].call.paper_id),
                                  step.result)
    /\ UNCHANGED <<out, questions, papers, paper_questions, students, submissions, _model>>

(* After the loop: the feedback, the finalisation and the dict returned. *)
FinalizeAndReturn(w) ==
    /\ job[w].pc = "loop"
    /\ Len(job[w].question_results) = Len(job[w].paper_details.questions)
    /\ LET returned ==
               grading_return("basic", job[w].paper_details, job[w].submission_id,
                              [question_results |-> job[w].question_results,
                               total_score |-> job[w].total_score,
                               encoded |-> <<>>, raised |-> <<>>])
       IN  /\ out' = [out EXCEPT ![w] = route_response(returned)]
           /\ submissions' =
                 IF returned.ok
                 THEN [submissions EXCEPT ![job[w].submission_id] =
                          finalize_paper_submission(@, job[w].total_score,
                                                    returned.value.overall_feedback)]
                 ELSE submissions
    /\ job' = [job EXCEPT ![w].pc = "idle"]
    /\ UNCHANGED <<questions, papers, paper_questions, students, responses, _model>>

NextRequests ==
    \E w \in Workers :
        \/ SubmitAndGradePaper(w)
        \/ ReadPaper(w)
        \/ GetOrCreateStudent(w)
        \/ CreatePaperSubmission(w)
        \/ GradeQuestion(w)
        \/ FinalizeAndReturn(w)

SpecRequests == InitRequests /\ [][NextRequests]_vars

(* The dict the call of worker w would return if it ran alone on the paper *)
(* as stored, with the encoder as loaded.                                   *)
AloneResult(w) ==
    LET paper_details == get_paper_with_questions(questions, papers, paper_questions,
                                                  job[w].call.paper_id)[1]
    IN  grading_return("basic", paper_details, 1,
                       grading_loop(_model[1], "basic", paper_details.questions,
                                    job[w].call.answers, <<>>)).value

AwardedScores(result) ==
    [k \in 1..Len(result.question_results) |-> result.question_results[k].awarded_score]

====
